---- MODULE Spec2Model ----
(***************************************************************************)
(* State-machine model of the blackjack game contract                      *)
(* (src/blackjack/src): tables, seated players, bet / move signals, token  *)
(* burns and mints, and the admin overrides of the turn.                   *)
(*                                                                         *)
(* Conventions                                                             *)
(*  - Option<T> is a sequence: <<>> is None, <<v>> is Some(v).             *)
(*  - Vec indexes are 0-based as in the source; players[i] of the source   *)
(*    is At(players, i).                                                   *)
(*  - A call that panics (require!, expect) is rolled back by the host:    *)
(*    the contract state is unchanged and the call's outcome is "abort".   *)
(*  - Timestamps are counted in milliseconds (the source multiplies the    *)
(*    millisecond timeouts by 1_000_000 to get nanoseconds).               *)
(*  - Fields that are only ever written and never read by an operation     *)
(*    (joined_at, created_at, total_burned, total_burned_this_session,     *)
(*    total_hands_dealt, total_players_joined, total_games_played) and     *)
(*    the emitted events are not part of the state.                        *)
(*  - last, scen and steps are bookkeeping: the latest call with its       *)
(*    arguments and outcome, the progress of the run along the full-round  *)
(*    scenario of test_full_game_round, and the number of calls made.      *)
(*  - A rejected call (outcome "false" or "abort") changes nothing, so a   *)
(*    run is followed up to its first rejected call: the calls after it    *)
(*    start from a state that the accepted calls alone reach as well.      *)
(*  - Spec makes its calls on the game functions of one table, as the      *)
(*    unit tests of the game modules do; SpecMid and SpecShort make the    *)
(*    same calls in runs of at most MaxMidSteps and MaxShortSteps calls.   *)
(*    SpecRemoval adds the table removals of table.rs, SpecAccess sends    *)
(*    every call through its entry point of lib.rs (pause switch, owner    *)
(*    and admin checks), SpecTables lets the table-scoped calls name       *)
(*    either of two tables, and SpecTokens adds the daily claim of         *)
(*    tokens.rs.                                                           *)
(*  - env is bookkeeping of SpecAccess and SpecTokens: the entry point     *)
(*    of the latest call, the account that signed it, and whether a        *)
(*    global pause has been carried out.                                   *)
(***************************************************************************)
EXTENDS Integers, Sequences, FiniteSets, TLC

\* ------------------------------------------------------------------ bounds
\* total_cards_burned never exceeds MaxBurned (bets and doubles are cut off there)
MaxBurned == 40
\* number of calls in a run
MaxSteps == 7
\* the calls made in a run of SpecMid and SpecTokens
MaxMidSteps == 6
\* the calls made in a run of SpecShort, SpecRemoval and SpecAccess
MaxShortSteps == 5
\* total_winnings_distributed never exceeds MaxMinted
MaxMinted == 40
\* round_number never exceeds MaxRound
MaxRound == 1
\* length of a signal queue
MaxQueue == 2
\* the block timestamp never exceeds MaxNow
MaxNow == 1

\* ------------------------------------------------------ program constants
betting_timeout_ms == 45000
move_timeout_ms == 30000
min_bet_amount == 10
max_bet_amount == 1000
max_players == 3
valid_burn_amounts == {10, 30, 50, 100}

\* ------------------------------------------------------------- input sets
\* alice and bob are registered accounts with a storage deposit that covers
\* blackjack; dave has neither an account record nor a storage deposit.
Registered == {"alice", "bob"}
Callers == Registered \cup {"dave"}
\* the table ids the contract can hold, and the ids the calls of Spec name
TableIds == {"t1", "t2"}
TableInputs == {"t1"}
SeatInputs == 0 .. 2
BetAmounts == {5, 10}
Moves == {"Hit", "Stand", "Double", "Split"}
GameStates == {"WaitingForPlayers", "Betting", "DealingInitialCards",
               "PlayerTurn", "DealerTurn", "RoundEnded"}
WinningsInputs == {40}
RoundInputs == 0 .. MaxRound
\* the (bet_count, move_count) pairs clear_signals is called with
ClearInputs == {<<1, 0>>, <<0, 1>>, <<3, 3>>}
\* the timeouts cleanup_inactive_players is called with
TimeoutInputs == {0}
\* the states set_table_state is called with
SetStateInputs == {"Betting", "PlayerTurn", "DealerTurn"}

\* ------------------------------------------------------------------ Option
None == <<>>
Some(v) == <<v>>
IsSome(o) == o # <<>>
Unwrap(o) == o[1]
HandInputs == {Some(0)}

\* 0-based indexing of a Vec
At(vec, i) == vec[i + 1]

VARIABLES
  accounts,        \* account id -> Option<UserAccount>, UserAccount = [balance, last_claim_time]
  storage_ok,      \* accounts whose storage deposit covers user + player cost
  total_supply,
  total_cards_burned,
  blackjack_stats, \* [total_tokens_burned_betting, total_winnings_distributed, active_tables]
  game_tables,     \* table id -> Option<GameTable>
  pending_bets,    \* table id -> Option<Vec<BetSignal>>
  pending_moves,   \* table id -> Option<Vec<MoveSignal>>
  now,             \* env::block_timestamp()
  is_globally_paused, \* Option<bool>
  pause_reason,    \* Option<String>
  game_admins,     \* the accounts that game_admins maps to true
  env,             \* the entry point of the latest call and its predecessor account
  last,            \* the call that produced this state, and its outcome
  scen,            \* how far the run so far has followed the full-round scenario
  steps            \* calls made so far

cvars == <<accounts, storage_ok, total_supply, total_cards_burned, blackjack_stats,
           game_tables, pending_bets, pending_moves, now>>
\* the pause switch and the admin list, which only the entry points of lib.rs read
avars == <<is_globally_paused, pause_reason, game_admins>>
vars == <<accounts, storage_ok, total_supply, total_cards_burned, blackjack_stats,
          game_tables, pending_bets, pending_moves, now, last, scen, steps,
          is_globally_paused, pause_reason, game_admins, env>>

\* ---------------------------------------------------------------- helpers
RECURSIVE SeqSum(_)
SeqSum(s) == IF s = <<>> THEN 0 ELSE Head(s) + SeqSum(Tail(s))

RECURSIVE SetSum(_, _)
SetSum(f, S) == IF S = {} THEN 0
                ELSE LET x == CHOOSE y \in S : TRUE IN f[x] + SetSum(f, S \ {x})

\* tokens::get_balance
get_balance(a) == IF IsSome(accounts[a]) THEN Unwrap(accounts[a]).balance ELSE 0

\* CardsContract::has_sufficient_balance
has_sufficient_balance(a, amount) == get_balance(a) >= amount

\* storage::has_sufficient_blackjack_storage, with the deposit comparison
\* abstracted to membership in storage_ok
has_sufficient_blackjack_storage(a) == a \in storage_ok

\* Vec::iter().position(|p| p.account_id == a)
Position(players, a) ==
  LET hits == {i \in 0 .. Len(players) - 1 : At(players, i).account_id = a}
  IN IF hits = {} THEN None
     ELSE Some(CHOOSE i \in hits : \A j \in hits : i <= j)

\* Vec::remove(index)
RemoveAt(vec, i) == [k \in 1 .. Len(vec) - 1 |-> IF k <= i THEN vec[k] ELSE vec[k + 1]]

\* replace element i of a Vec
SetAt(vec, i, v) == [vec EXCEPT ![i + 1] = v]

\* LookupMap::get(..).unwrap_or_default()
unwrap_or_default(o) == IF IsSome(o) THEN Unwrap(o) ELSE <<>>

\* the outcome record of a call
Call(op, caller, t) ==
  [op |-> op, caller |-> caller, table |-> t, ret |-> "true",
   seat |-> 0, amount |-> 0, round |-> 0, move |-> "", hand |-> None,
   target |-> "", dist |-> <<>>, timeout |-> 0]

Returns(c, r) == last' = [c EXCEPT !.ret = r]
\* a panic: the host discards every state change of the call
Abort(c) == UNCHANGED cvars /\ Returns(c, "abort")
\* an early `return false` before any write
ReturnFalse(c) == UNCHANGED cvars /\ Returns(c, "false")

\* ------------------------------------------------------------------- Init
\* alice holds one daily claim, bob what is left of one after burns
InitialBalance == [a \in Registered |-> IF a = "alice" THEN 1000 ELSE 10]

\* ContractConfig::default: claim_interval is MINUTE_IN_NS, daily_claim_amount 1000
claim_interval_ms == 60000
daily_claim_amount == 1000

\* the registered accounts made their latest claim before the run starts, at
\* least one claim interval before it (timestamps count from the start of the run)
InitialClaimTime == 0 - claim_interval_ms

\* the account the contract was initialised with
owner_id == "owner"

\* the entry point a call came through, the account that signed it, and whether
\* a global_pause has been carried out so far
Entered(method, predecessor, was_paused) ==
  [method |-> method, predecessor |-> predecessor, was_paused |-> was_paused]

Init ==
  /\ accounts = [a \in Callers |->
                   IF a \in DOMAIN InitialBalance
                   THEN Some([balance |-> InitialBalance[a],
                              last_claim_time |-> InitialClaimTime])
                   ELSE None]
  /\ total_supply = SetSum(InitialBalance, DOMAIN InitialBalance)
  /\ storage_ok = Registered
  /\ total_cards_burned = 0
  /\ blackjack_stats = [total_tokens_burned_betting |-> 0,
                        total_winnings_distributed |-> 0,
                        active_tables |-> 0]
  /\ game_tables = [t \in TableIds |-> None]
  /\ pending_bets = [t \in TableIds |-> None]
  /\ pending_moves = [t \in TableIds |-> None]
  /\ now = 0
  /\ last = Call("new", "", "")
  /\ scen = 0
  /\ steps = 0
  /\ is_globally_paused = Some(FALSE)
  /\ pause_reason = None
  /\ game_admins = {owner_id}
  /\ env = Entered("new", owner_id, FALSE)

\* ------------------------------------------------------------ table.rs
\* table::create_table, lines 25-39: the new GameTable
NewTable ==
  [state |-> "WaitingForPlayers", players |-> <<>>, current_player_index |-> None,
   round_number |-> 0, last_activity |-> now, betting_deadline |-> None,
   move_deadline |-> None, max_players |-> max_players, min_bet |-> min_bet_amount,
   max_bet |-> max_bet_amount, is_active |-> TRUE]

\* a create_table without the check that the id is free
CreateOverwrites(id) ==
  /\ game_tables' = [game_tables EXCEPT ![id] = Some(NewTable)]
  /\ blackjack_stats' = [blackjack_stats EXCEPT !.active_tables = @ + 1]
  /\ pending_bets' = [pending_bets EXCEPT ![id] = Some(<<>>)]
  /\ pending_moves' = [pending_moves EXCEPT ![id] = Some(<<>>)]
  /\ UNCHANGED <<accounts, storage_ok, total_supply, total_cards_burned, now>>
  /\ Returns(Call("create_table", "admin", id), "true")

\* table::create_table with Some(id)
create_table(id) ==
  LET c == Call("create_table", "admin", id) IN
  IF IsSome(game_tables[id]) THEN Abort(c)
  ELSE /\ game_tables' = [game_tables EXCEPT ![id] = Some(NewTable)]
       /\ blackjack_stats' = [blackjack_stats EXCEPT !.active_tables = @ + 1]
       /\ pending_bets' = [pending_bets EXCEPT ![id] = Some(<<>>)]
       /\ pending_moves' = [pending_moves EXCEPT ![id] = Some(<<>>)]
       /\ UNCHANGED <<accounts, storage_ok, total_supply, total_cards_burned, now>>
       /\ Returns(c, "true")

\* set_table_state lines 146-173: the table after the state is written
StateSetTable(table, new_state) ==
  LET t0 == [table EXCEPT !.state = new_state, !.last_activity = now] IN
  CASE new_state = "WaitingForPlayers" ->
         [t0 EXCEPT !.betting_deadline = None, !.move_deadline = None,
                    !.current_player_index = None]
    [] new_state = "Betting" ->
         [t0 EXCEPT !.move_deadline = None,
                    !.betting_deadline = Some(now + betting_timeout_ms)]
    [] new_state = "PlayerTurn" ->
         [t0 EXCEPT !.betting_deadline = None,
                    !.move_deadline = Some(now + move_timeout_ms)]
    [] new_state = "DealerTurn" ->
         [t0 EXCEPT !.betting_deadline = None, !.move_deadline = None]
    [] new_state = "RoundEnded" ->
         [t0 EXCEPT !.betting_deadline = None, !.move_deadline = None]
    [] OTHER -> t0

\* table::set_table_state
set_table_state(t, new_state) ==
  LET c == [Call("set_table_state", "admin", t) EXCEPT !.target = new_state] IN
  IF game_tables[t] = None THEN ReturnFalse(c)
  ELSE /\ game_tables' = [game_tables EXCEPT
                            ![t] = Some(StateSetTable(Unwrap(@), new_state))]
       /\ UNCHANGED <<accounts, storage_ok, total_supply, total_cards_burned,
                      blackjack_stats, pending_bets, pending_moves, now>>
       /\ Returns(c, "true")

\* ----------------------------------------------------------- player.rs
\* player::find_next_active_player (and admin::find_next_active_player_index,
\* which has the same body)
find_next_active_player(table, start_index) ==
  LET n == Len(table.players)
      ok(i) == LET p == At(table.players, (start_index + i) % n)
               IN p.state = "Active" /\ p.burned_tokens > 0
      hits == {i \in 1 .. n : ok(i)}
  IN IF n = 0 \/ hits = {} THEN None
     ELSE Some((start_index + (CHOOSE i \in hits : \A j \in hits : i <= j)) % n)

\* a join_table that skips the seat check
SeatNeverOccupied(table, seat) == FALSE

\* join_table step 5: the requested seat is taken
SeatOccupied(table, seat) ==
  \E i \in 1 .. Len(table.players) : table.players[i].seat_number = seat

\* join_table step 6: the caller already sits at this table
AlreadySeated(table, a) ==
  \E i \in 1 .. Len(table.players) : table.players[i].account_id = a

\* join_table step 7: the state a new player gets
JoinState(table_state) ==
  IF table_state \in {"WaitingForPlayers", "Betting"} THEN "Active"
  ELSE IF table_state = "RoundEnded" THEN "WaitingForNextRound"
  ELSE "Observing"

\* player::join_table
join_table(caller, t, seat) ==
  LET c == [Call("join_table", caller, t) EXCEPT !.seat = seat] IN
  IF seat < 1 \/ seat > 3 THEN ReturnFalse(c)
  ELSE IF ~has_sufficient_blackjack_storage(caller) THEN ReturnFalse(c)
  ELSE IF game_tables[t] = None THEN ReturnFalse(c)
  ELSE LET table == Unwrap(game_tables[t]) IN
    IF ~table.is_active THEN ReturnFalse(c)
    ELSE IF Len(table.players) >= table.max_players THEN ReturnFalse(c)
    ELSE IF SeatOccupied(table, seat) THEN ReturnFalse(c)
    ELSE IF AlreadySeated(table, caller) THEN ReturnFalse(c)
    ELSE
      LET player == [account_id |-> caller, seat_number |-> seat,
                     state |-> JoinState(table.state), burned_tokens |-> 0,
                     last_action_time |-> now, pending_move |-> None,
                     rounds_played |-> 0]
          table2 == [table EXCEPT !.players = Append(@, player),
                                  !.last_activity = now]
      IN /\ game_tables' = [game_tables EXCEPT ![t] = Some(table2)]
         /\ UNCHANGED <<accounts, storage_ok, total_supply, total_cards_burned,
                        blackjack_stats, pending_bets, pending_moves, now>>
         /\ Returns(c, "true")

\* a leave_table that refunds only before the betting phase
LeaveRefundsOnlyWaiting(table_state) == table_state = "WaitingForPlayers"

\* leave_table step 3: the phases in which a leaving player's stake is refunded
LeaveRefunds(table_state) == table_state \in {"Betting", "WaitingForPlayers"}

\* kick_player refunds a nonzero stake in every phase
KickRefunds(table_state) == TRUE

\* leave_table step 4 / kick_player: the turn pointer before the removal
AdjustTurn(table, player_index) ==
  IF IsSome(table.current_player_index)
  THEN LET current_idx == Unwrap(table.current_player_index) IN
       IF current_idx = player_index
       THEN find_next_active_player(table, current_idx)
       ELSE IF current_idx > player_index THEN Some(current_idx - 1)
       ELSE table.current_player_index
  ELSE table.current_player_index

\* the table after players.remove(player_index), with the empty-table reset
RemovePlayer(table, player_index) ==
  LET t1 == [table EXCEPT !.current_player_index = AdjustTurn(table, player_index),
                          !.players = RemoveAt(@, player_index),
                          !.last_activity = now]
  IN IF t1.players = <<>>
     THEN [t1 EXCEPT !.state = "WaitingForPlayers", !.current_player_index = None,
                     !.betting_deadline = None, !.move_deadline = None]
     ELSE t1

\* a refund that takes the stake off the betting counter twice
RefundUncountsTwice(a, amount) ==
  IF amount > 0 /\ IsSome(accounts[a])
  THEN /\ accounts' = [accounts EXCEPT ![a] = Some([Unwrap(@) EXCEPT !.balance = @ + amount])]
       /\ total_supply' = total_supply + amount
       /\ blackjack_stats' = [blackjack_stats EXCEPT
                                !.total_tokens_burned_betting = @ - 2 * amount]
  ELSE UNCHANGED <<accounts, total_supply, blackjack_stats>>

\* the mint that gives a stake back (leave_table lines 136-145, kick_player 376-382)
Refund(a, amount) ==
  IF amount > 0 /\ IsSome(accounts[a])
  THEN /\ accounts' = [accounts EXCEPT ![a] = Some([Unwrap(@) EXCEPT !.balance = @ + amount])]
       /\ total_supply' = total_supply + amount
       /\ blackjack_stats' = [blackjack_stats EXCEPT
                                !.total_tokens_burned_betting = @ - amount]
  ELSE UNCHANGED <<accounts, total_supply, blackjack_stats>>

\* player::leave_table
leave_table(caller, t) ==
  LET c == Call("leave_table", caller, t) IN
  IF game_tables[t] = None THEN ReturnFalse(c)
  ELSE LET table == Unwrap(game_tables[t])
           pos == Position(table.players, caller) IN
    IF pos = None THEN ReturnFalse(c)
    ELSE
      LET player_index == Unwrap(pos)
          burned_tokens == At(table.players, player_index).burned_tokens
          table2 == RemovePlayer(table, player_index)
          emptied == table2.players = <<>>
      IN /\ Refund(caller, IF LeaveRefunds(table.state) THEN burned_tokens ELSE 0)
         /\ game_tables' = [game_tables EXCEPT ![t] = Some(table2)]
         /\ pending_bets' = IF emptied THEN [pending_bets EXCEPT ![t] = None]
                            ELSE pending_bets
         /\ pending_moves' = IF emptied THEN [pending_moves EXCEPT ![t] = None]
                             ELSE pending_moves
         /\ UNCHANGED <<storage_ok, total_cards_burned, now>>
         /\ Returns(c, "true")


\* cleanup_inactive_players lines 213-218: the player's last action is older than
\* the timeout
Inactive(player, timeout_ms) == now - player.last_action_time > timeout_ms

\* cleanup_inactive_players lines 225-233: the removed players whose stake is given back
SweepRefunded(player, timeout_ms) ==
  Inactive(player, timeout_ms) /\ player.burned_tokens > 0
  /\ IsSome(accounts[player.account_id])

\* cleanup_inactive_players lines 221-246: the balances after the refunds
RECURSIVE SweepRefundAll(_, _, _)
SweepRefundAll(accts, players, timeout_ms) ==
  IF players = <<>> THEN accts
  ELSE LET p == Head(players) IN
       SweepRefundAll(IF SweepRefunded(p, timeout_ms)
                      THEN [accts EXCEPT ![p.account_id] =
                              Some([Unwrap(@) EXCEPT !.balance = @ + p.burned_tokens])]
                      ELSE accts,
                      Tail(players), timeout_ms)

\* cleanup_inactive_players: the sum of the stakes given back
SweepRefundedTotal(players, timeout_ms) ==
  SeqSum([i \in 1 .. Len(players) |->
            IF SweepRefunded(players[i], timeout_ms) THEN players[i].burned_tokens ELSE 0])

\* cleanup_inactive_players lines 221-273: the table after the removals
SweptTable(table, timeout_ms) ==
  LET kept(p) == ~Inactive(p, timeout_ms)
      t1 == [table EXCEPT !.players = SelectSeq(@, kept), !.last_activity = now]
      t2 == IF IsSome(t1.current_player_index)
               /\ Unwrap(t1.current_player_index) >= Len(t1.players)
            THEN [t1 EXCEPT !.current_player_index = find_next_active_player(t1, 0)]
            ELSE t1
  IN IF t2.players = <<>>
     THEN [t2 EXCEPT !.state = "WaitingForPlayers", !.current_player_index = None,
                     !.betting_deadline = None, !.move_deadline = None]
     ELSE t2

\* player::cleanup_inactive_players; the outcome is the number of players removed
cleanup_inactive_players(t, timeout_ms) ==
  LET c == [Call("cleanup_inactive_players", "admin", t) EXCEPT
             !.timeout = timeout_ms] IN
  IF game_tables[t] = None
  THEN UNCHANGED cvars /\ Returns([c EXCEPT !.amount = 0], "count")
  ELSE
    LET table == Unwrap(game_tables[t])
        removed_count == Cardinality({i \in 1 .. Len(table.players) :
                                        Inactive(table.players[i], timeout_ms)})
        table2 == SweptTable(table, timeout_ms)
        emptied == table2.players = <<>>
        total == SweepRefundedTotal(table.players, timeout_ms)
    IN IF removed_count = 0
       THEN UNCHANGED cvars /\ Returns([c EXCEPT !.amount = 0], "count")
       ELSE /\ accounts' = SweepRefundAll(accounts, table.players, timeout_ms)
            /\ total_supply' = total_supply + total
            /\ blackjack_stats' = [blackjack_stats EXCEPT
                                     !.total_tokens_burned_betting = @ - total]
            /\ game_tables' = [game_tables EXCEPT ![t] = Some(table2)]
            /\ pending_bets' = IF emptied THEN [pending_bets EXCEPT ![t] = None]
                               ELSE pending_bets
            /\ pending_moves' = IF emptied THEN [pending_moves EXCEPT ![t] = None]
                                ELSE pending_moves
            /\ UNCHANGED <<storage_ok, total_cards_burned, now>>
            /\ Returns([c EXCEPT !.amount = removed_count], "count")

\* ----------------------------------------------------------- action.rs
\* a burn that debits the balance and leaves total_supply alone
BurnKeepsSupply(a, amount) ==
  /\ accounts' = [accounts EXCEPT ![a] = Some([Unwrap(@) EXCEPT !.balance = @ - amount])]
  /\ total_supply' = total_supply
  /\ total_cards_burned' = total_cards_burned + amount
  /\ blackjack_stats' = [blackjack_stats EXCEPT
                           !.total_tokens_burned_betting = @ + amount]

\* a burn that leaves the burn counters alone
BurnUncounted(a, amount) ==
  /\ accounts' = [accounts EXCEPT ![a] = Some([Unwrap(@) EXCEPT !.balance = @ - amount])]
  /\ total_supply' = IF total_supply >= amount THEN total_supply - amount ELSE 0
  /\ UNCHANGED <<total_cards_burned, blackjack_stats>>

\* the burn of a bet or a double: balance, total_supply and the burn counters
Burn(a, amount) ==
  /\ accounts' = [accounts EXCEPT ![a] = Some([Unwrap(@) EXCEPT !.balance = @ - amount])]
  /\ total_supply' = IF total_supply >= amount THEN total_supply - amount ELSE 0
  /\ total_cards_burned' = total_cards_burned + amount
  /\ blackjack_stats' = [blackjack_stats EXCEPT
                           !.total_tokens_burned_betting = @ + amount]

\* a push that puts the new signal in front of the queued ones
PushedInFront(queue, signal) == <<signal>> \o queue

\* place_bet lines 94-97 and signal_move lines 209-212: signals.push(signal)
Pushed(queue, signal) == Append(queue, signal)

\* place_bet step 1: the amount is a configured denomination
ValidBetAmount(amount) == amount \in valid_burn_amounts

\* a place_bet that lets a player with a stake bet again
BetAllowedAgain(table, player, amount) ==
  /\ table.state = "Betting"
  /\ table.is_active
  /\ player.state = "Active"
  /\ amount >= table.min_bet
  /\ amount <= table.max_bet

\* place_bet steps 2-4 after the table and the player were found: the require! checks
BetAllowed(table, player, amount) ==
  /\ table.state = "Betting"
  /\ table.is_active
  /\ player.state = "Active"
  /\ player.burned_tokens = 0
  /\ amount >= table.min_bet
  /\ amount <= table.max_bet

\* action::place_bet
place_bet(caller, t, amount) ==
  LET c == [Call("place_bet", caller, t) EXCEPT !.amount = amount] IN
  IF ~ValidBetAmount(amount) THEN Abort(c)
  ELSE IF ~has_sufficient_balance(caller, amount) THEN Abort(c)
  ELSE IF game_tables[t] = None THEN ReturnFalse(c)
  ELSE LET table == Unwrap(game_tables[t]) IN
    IF table.state # "Betting" \/ ~table.is_active THEN Abort(c)
    ELSE LET pos == Position(table.players, caller) IN
      IF pos = None THEN ReturnFalse(c)
      ELSE LET player_index == Unwrap(pos)
               player == At(table.players, player_index) IN
        IF ~BetAllowed(table, player, amount) THEN Abort(c)
        ELSE IF accounts[caller] = None \/ total_supply < amount THEN Abort(c)
        ELSE
          LET player2 == [player EXCEPT !.burned_tokens = amount,
                                        !.last_action_time = now]
              bet_signal == [player_account |-> caller, table_id |-> t,
                             amount |-> amount, timestamp |-> now,
                             seat_number |-> player.seat_number]
              table2 == [table EXCEPT !.players = SetAt(@, player_index, player2),
                                      !.last_activity = now]
          IN /\ Burn(caller, amount)
             /\ pending_bets' = [pending_bets EXCEPT
                                   ![t] = Some(Pushed(unwrap_or_default(@), bet_signal))]
             /\ game_tables' = [game_tables EXCEPT ![t] = Some(table2)]
             /\ UNCHANGED <<storage_ok, pending_moves, now>>
             /\ Returns(c, "true")

\* a signal_move without the turn check
AnyoneMayMove(table, player_index) == TRUE

\* signal_move step 2: the caller's index is the table's current_player_index
IsCallersTurn(table, player_index) ==
  Unwrap(table.current_player_index) = player_index

\* a signal_move without the balance check of Double
AnyMoveAllowed(caller, player, move_type) == TRUE

\* a signal_move that asks Split for the balance of a second stake, as Double
SplitChecked(caller, player, move_type) ==
  move_type \in {"Double", "Split"} => has_sufficient_balance(caller, player.burned_tokens)

\* signal_move step 3: the checks that depend on the move; only Double has one
MoveAllowed(caller, player, move_type) ==
  move_type = "Double" => has_sufficient_balance(caller, player.burned_tokens)

\* action::signal_move
signal_move(caller, t, move_type, hand_index) ==
  LET c == [Call("signal_move", caller, t) EXCEPT !.move = move_type,
                                                   !.hand = hand_index] IN
  IF game_tables[t] = None THEN ReturnFalse(c)
  ELSE LET table == Unwrap(game_tables[t]) IN
    IF table.state # "PlayerTurn" \/ ~table.is_active THEN Abort(c)
    ELSE LET pos == Position(table.players, caller) IN
      IF pos = None THEN ReturnFalse(c)
      ELSE LET player_index == Unwrap(pos)
               player == At(table.players, player_index) IN
        IF table.current_player_index = None THEN Abort(c)
        ELSE IF ~IsCallersTurn(table, player_index) THEN Abort(c)
        ELSE IF player.state # "Active" THEN Abort(c)
        ELSE IF ~MoveAllowed(caller, player, move_type) THEN Abort(c)
        ELSE IF move_type = "Double" /\ accounts[caller] = None THEN Abort(c)
        ELSE
          LET double_amount == IF move_type = "Double" THEN player.burned_tokens ELSE 0
              player2 == [player EXCEPT !.burned_tokens = @ + double_amount,
                                        !.pending_move = Some(move_type),
                                        !.last_action_time = now]
              move_signal == [player_account |-> caller, table_id |-> t,
                              move_type |-> move_type, timestamp |-> now,
                              hand_index |-> hand_index]
              table2 == [table EXCEPT !.players = SetAt(@, player_index, player2),
                                      !.last_activity = now]
          IN /\ IF move_type = "Double"
                THEN Burn(caller, double_amount)
                ELSE UNCHANGED <<accounts, total_supply, total_cards_burned,
                                 blackjack_stats>>
             /\ pending_moves' = [pending_moves EXCEPT
                                    ![t] = Some(Pushed(unwrap_or_default(@), move_signal))]
             /\ game_tables' = [game_tables EXCEPT ![t] = Some(table2)]
             /\ UNCHANGED <<storage_ok, pending_bets, now>>
             /\ Returns(c, "true")

\* a distribute_winnings without the round-number guard
AnyRoundAccepted(distribution_round, table_round) == TRUE

\* a guard that also accepts the round that was just settled
RoundAcceptedAgain(distribution_round, table_round) ==
  distribution_round + 1 >= table_round

\* distribute_winnings step 2: the round-number guard
RoundAccepted(distribution_round, table_round) == distribution_round >= table_round

\* a settlement that credits the first entry only
CreditFirstOnly(accts, dist) ==
  IF dist = <<>> THEN accts
  ELSE IF IsSome(accts[Head(dist).account_id])
       THEN [accts EXCEPT ![Head(dist).account_id] =
               Some([Unwrap(@) EXCEPT !.balance = @ + Head(dist).winnings])]
       ELSE accts

\* distribute_winnings step 3: the balances after crediting the entries in order;
\* an entry whose account is unknown is skipped
RECURSIVE CreditAll(_, _)
CreditAll(accts, dist) ==
  IF dist = <<>> THEN accts
  ELSE LET w == Head(dist) IN
       CreditAll(IF IsSome(accts[w.account_id])
                 THEN [accts EXCEPT ![w.account_id] =
                         Some([Unwrap(@) EXCEPT !.balance = @ + w.winnings])]
                 ELSE accts,
                 Tail(dist))

\* distribute_winnings step 3: total_minted
RECURSIVE TotalMinted(_)
TotalMinted(dist) ==
  IF dist = <<>> THEN 0
  ELSE (IF IsSome(accounts[Head(dist).account_id]) THEN Head(dist).winnings ELSE 0)
       + TotalMinted(Tail(dist))

\* distribute_winnings step 5: a seated player after the round
ResetPlayer(player) ==
  [player EXCEPT !.burned_tokens = 0, !.pending_move = None, !.last_action_time = now]

\* a settlement that counts the round twice
RoundNumberSkipped(n) == n + 2

\* a settlement that forgets to count the round
RoundNumberKept(n) == n

\* distribute_winnings step 6: the round number after the settlement
NextRoundNumber(n) == n + 1

\* action::distribute_winnings
distribute_winnings(t, round, dist) ==
  LET c == [Call("distribute_winnings", "admin", t) EXCEPT !.round = round,
                                                          !.dist = dist] IN
  IF game_tables[t] = None THEN ReturnFalse(c)
  ELSE LET table == Unwrap(game_tables[t]) IN
    IF ~RoundAccepted(round, table.round_number) THEN Abort(c)
    ELSE
      LET total_minted == TotalMinted(dist)
          table2 == [table EXCEPT
                       !.players = [i \in 1 .. Len(table.players) |->
                                      ResetPlayer(table.players[i])],
                       !.round_number = NextRoundNumber(@),
                       !.last_activity = now,
                       !.state = "RoundEnded"]
      IN /\ accounts' = CreditAll(accounts, dist)
         /\ total_supply' = total_supply + total_minted
         /\ blackjack_stats' = [blackjack_stats EXCEPT
                                  !.total_winnings_distributed = @ + total_minted]
         /\ game_tables' = [game_tables EXCEPT ![t] = Some(table2)]
         /\ pending_bets' = [pending_bets EXCEPT ![t] = Some(<<>>)]
         /\ pending_moves' = [pending_moves EXCEPT ![t] = Some(<<>>)]
         /\ UNCHANGED <<storage_ok, total_cards_burned, now>>
         /\ Returns(c, "true")


\* ------------------------------------------------------------ admin.rs
\* a PlayerTurn arm that takes the first eligible player in list order
FirstPlayerInListOrder(players) ==
  LET cand == {i \in 0 .. Len(players) - 1 :
                 At(players, i).state = "Active" /\ At(players, i).burned_tokens > 0}
  IN IF cand = {} THEN None
     ELSE Some(CHOOSE i \in cand : \A j \in cand : i <= j)

\* advance_game_state, PlayerTurn arm: the index of the Active player with a
\* nonzero stake that has the lowest seat number
FirstPlayerIndex(players) ==
  LET cand == {i \in 0 .. Len(players) - 1 :
                 At(players, i).state = "Active" /\ At(players, i).burned_tokens > 0}
  IN IF cand = {} THEN None
     ELSE Some(CHOOSE i \in cand :
                 \A j \in cand : At(players, i).seat_number <= At(players, j).seat_number)

\* a Betting arm that resets only the players it activates
StartRoundOnlyActivated(player) ==
  IF player.state \in {"Observing", "WaitingForNextRound"}
  THEN [player EXCEPT !.burned_tokens = 0, !.pending_move = None,
                      !.last_action_time = now, !.state = "Active"]
  ELSE player

\* advance_game_state, Betting arm: a seated player at the start of a round
StartRoundPlayer(player) ==
  [player EXCEPT !.burned_tokens = 0, !.pending_move = None,
                 !.last_action_time = now,
                 !.state = IF @ \in {"Observing", "WaitingForNextRound"}
                           THEN "Active" ELSE @]

\* an advance_game_state that starts the round count again when it leaves
\* RoundEnded
AdvancedRestartsCount(table, new_state) ==
  [table EXCEPT !.state = new_state, !.last_activity = now,
                !.current_player_index = None,
                !.round_number = IF new_state = "RoundEnded" THEN @ + 1
                                 ELSE IF table.state = "RoundEnded" THEN 0 ELSE @]

\* an advance_game_state that does not write the state
AdvancedKeepsState(table, new_state) == [table EXCEPT !.last_activity = now]

\* advance_game_state lines 27-103: the table after the transition
AdvancedTable(table, new_state) ==
  LET t0 == [table EXCEPT !.state = new_state, !.last_activity = now] IN
  CASE new_state = "Betting" ->
         [t0 EXCEPT !.players = [i \in 1 .. Len(table.players) |->
                                   StartRoundPlayer(table.players[i])],
                    !.betting_deadline = Some(now + betting_timeout_ms),
                    !.move_deadline = None,
                    !.current_player_index = None]
    [] new_state = "PlayerTurn" ->
         LET first == FirstPlayerIndex(table.players) IN
         [t0 EXCEPT !.current_player_index = first,
                    !.betting_deadline = None,
                    !.move_deadline = IF IsSome(first)
                                      THEN Some(now + move_timeout_ms) ELSE @]
    [] new_state = "DealerTurn" ->
         [t0 EXCEPT !.current_player_index = None, !.betting_deadline = None,
                    !.move_deadline = None]
    [] new_state = "RoundEnded" ->
         [t0 EXCEPT !.round_number = @ + 1, !.current_player_index = None,
                    !.betting_deadline = None, !.move_deadline = None]
    [] new_state = "WaitingForPlayers" ->
         [t0 EXCEPT !.current_player_index = None, !.betting_deadline = None,
                    !.move_deadline = None]
    [] OTHER -> t0

\* admin::advance_game_state
advance_game_state(t, new_state) ==
  LET c == [Call("advance_game_state", "admin", t) EXCEPT !.target = new_state] IN
  IF game_tables[t] = None THEN ReturnFalse(c)
  ELSE /\ game_tables' = [game_tables EXCEPT
                            ![t] = Some(AdvancedTable(Unwrap(@), new_state))]
       /\ UNCHANGED <<accounts, storage_ok, total_supply, total_cards_burned,
                      blackjack_stats, pending_bets, pending_moves, now>>
       /\ Returns(c, "true")

\* a force_next_player whose scan starts at the current index itself
ForcedNextFromCurrent(table) ==
  LET n == Len(table.players)
      current_index == IF IsSome(table.current_player_index)
                       THEN Unwrap(table.current_player_index) ELSE 0
      hits == {i \in 0 .. n - 1 :
                 LET p == At(table.players, (current_index + i) % n)
                 IN p.state = "Active" /\ p.burned_tokens > 0}
  IN IF hits = {} THEN None
     ELSE Some((current_index + (CHOOSE i \in hits : \A j \in hits : i <= j)) % n)

\* force_next_player lines 173-184: the next Active player with a stake, scanning
\* the other seats cyclically from just after the current index
ForcedNextIndex(table) ==
  LET n == Len(table.players)
      current_index == IF IsSome(table.current_player_index)
                       THEN Unwrap(table.current_player_index) ELSE 0
      ok(i) == LET p == At(table.players, (current_index + i) % n)
               IN p.state = "Active" /\ p.burned_tokens > 0
      hits == {i \in 1 .. n - 1 : ok(i)}
  IN IF hits = {} THEN None
     ELSE Some((current_index + (CHOOSE i \in hits : \A j \in hits : i <= j)) % n)

\* admin::force_next_player
force_next_player(t) ==
  LET c == Call("force_next_player", "admin", t) IN
  IF game_tables[t] = None THEN ReturnFalse(c)
  ELSE LET table == Unwrap(game_tables[t]) IN
    IF table.state # "PlayerTurn" THEN ReturnFalse(c)
    ELSE
      LET next_index == ForcedNextIndex(table)
          table2 == IF IsSome(next_index)
                    THEN [table EXCEPT !.current_player_index = next_index,
                                       !.move_deadline = Some(now + move_timeout_ms)]
                    ELSE AdvancedTable(table, "DealerTurn")
      IN /\ game_tables' = [game_tables EXCEPT ![t] = Some(table2)]
         /\ UNCHANGED <<accounts, storage_ok, total_supply, total_cards_burned,
                        blackjack_stats, pending_bets, pending_moves, now>>
         /\ Returns(c, "true")

\* set_current_player_admin lines 222-229 (table::set_current_player, lines
\* 203-212, writes the same fields): the table with the turn given to index
TurnGivenTo(table, index) ==
  [table EXCEPT !.current_player_index = Some(index),
                !.move_deadline = Some(now + move_timeout_ms),
                !.last_activity = now]

\* admin::set_current_player_admin
set_current_player_admin(t, player_account) ==
  LET c == [Call("set_current_player_admin", "admin", t) EXCEPT
              !.target = player_account] IN
  IF game_tables[t] = None THEN ReturnFalse(c)
  ELSE LET table == Unwrap(game_tables[t])
           pos == Position(table.players, player_account) IN
    IF pos = None THEN ReturnFalse(c)
    ELSE /\ game_tables' = [game_tables EXCEPT
                              ![t] = Some(TurnGivenTo(table, Unwrap(pos)))]
         /\ UNCHANGED <<accounts, storage_ok, total_supply, total_cards_burned,
                        blackjack_stats, pending_bets, pending_moves, now>>
         /\ Returns(c, "true")

\* table::set_current_player
set_current_player(t, player_account) ==
  LET c == [Call("set_current_player", "admin", t) EXCEPT
              !.target = player_account] IN
  IF game_tables[t] = None THEN ReturnFalse(c)
  ELSE LET table == Unwrap(game_tables[t])
           pos == Position(table.players, player_account) IN
    IF pos = None THEN ReturnFalse(c)
    ELSE /\ game_tables' = [game_tables EXCEPT
                              ![t] = Some(TurnGivenTo(table, Unwrap(pos)))]
         /\ UNCHANGED <<accounts, storage_ok, total_supply, total_cards_burned,
                        blackjack_stats, pending_bets, pending_moves, now>>
         /\ Returns(c, "true")

\* admin::kick_player
kick_player(t, player_account) ==
  LET c == [Call("kick_player", "admin", t) EXCEPT !.target = player_account] IN
  IF game_tables[t] = None THEN ReturnFalse(c)
  ELSE LET table == Unwrap(game_tables[t])
           pos == Position(table.players, player_account) IN
    IF pos = None THEN ReturnFalse(c)
    ELSE
      LET index == Unwrap(pos)
          burned_tokens == At(table.players, index).burned_tokens
      IN /\ Refund(player_account,
                   IF KickRefunds(table.state) THEN burned_tokens ELSE 0)
         /\ game_tables' = [game_tables EXCEPT
                              ![t] = Some(RemovePlayer(table, index))]
         /\ UNCHANGED <<storage_ok, total_cards_burned, pending_bets,
                        pending_moves, now>>
         /\ Returns(c, "true")

\* emergency_refund_table lines 312-330: the players whose stake is given back
\* are those with a nonzero stake and an account record
EmergencyRefunded(player) == player.burned_tokens > 0 /\ IsSome(accounts[player.account_id])

\* a refund loop that credits nobody
RefundNobody(accts, players) == accts

\* emergency_refund_table lines 312-330: the balances after the refunds, in seat-list order
RECURSIVE RefundAll(_, _)
RefundAll(accts, players) ==
  IF players = <<>> THEN accts
  ELSE LET p == Head(players) IN
       RefundAll(IF EmergencyRefunded(p)
                 THEN [accts EXCEPT ![p.account_id] =
                         Some([Unwrap(@) EXCEPT !.balance = @ + p.burned_tokens])]
                 ELSE accts,
                 Tail(players))

\* emergency_refund_table: the sum of the stakes given back
RefundedTotal(players) ==
  SeqSum([i \in 1 .. Len(players) |->
            IF EmergencyRefunded(players[i]) THEN players[i].burned_tokens ELSE 0])

\* a refunded_count that counts every seated player
RefundedCountSeated(players) == Len(players)

\* emergency_refund_table: refunded_count
RefundedCount(players) ==
  Cardinality({i \in 1 .. Len(players) : EmergencyRefunded(players[i])})

\* admin::emergency_refund_table; the outcome is the number of players refunded
emergency_refund_table(t) ==
  LET c == Call("emergency_refund_table", "admin", t) IN
  IF game_tables[t] = None
  THEN UNCHANGED cvars /\ Returns([c EXCEPT !.amount = 0], "count")
  ELSE
    LET table == Unwrap(game_tables[t])
        table2 == [table EXCEPT
                     !.players = [i \in 1 .. Len(table.players) |->
                                    IF EmergencyRefunded(table.players[i])
                                    THEN [table.players[i] EXCEPT !.burned_tokens = 0]
                                    ELSE table.players[i]],
                     !.state = "WaitingForPlayers",
                     !.current_player_index = None,
                     !.betting_deadline = None,
                     !.move_deadline = None,
                     !.last_activity = now]
        total == RefundedTotal(table.players)
    IN /\ accounts' = RefundAll(accounts, table.players)
       /\ total_supply' = total_supply + total
       /\ blackjack_stats' = [blackjack_stats EXCEPT
                                !.total_tokens_burned_betting = @ - total]
       /\ game_tables' = [game_tables EXCEPT ![t] = Some(table2)]
       /\ pending_bets' = [pending_bets EXCEPT ![t] = Some(<<>>)]
       /\ pending_moves' = [pending_moves EXCEPT ![t] = Some(<<>>)]
       /\ UNCHANGED <<storage_ok, total_cards_burned, now>>
       /\ Returns([c EXCEPT !.amount = RefundedCount(table.players)], "count")

\* a clear_signals that takes the signals from the tail of the queue
DrainedFromTail(queue, count) ==
  IF count >= Len(queue) THEN <<>> ELSE SubSeq(queue, 1, Len(queue) - count)

\* clear_signals lines 130-139 and 143-152: a queue after count signals were
\* taken from its front
Drained(queue, count) ==
  IF count >= Len(queue) THEN <<>> ELSE SubSeq(queue, count + 1, Len(queue))

ClearedEveryQueue(q, t, count) ==
  IF count > 0
  THEN [u \in DOMAIN q |-> IF IsSome(q[u]) THEN Some(Drained(Unwrap(q[u]), count))
                                           ELSE q[u]]
  ELSE q

\* clear_signals for one queue map: untouched when the count is 0 or the table
\* has no queue
ClearedQueues(q, t, count) ==
  IF count > 0 /\ IsSome(q[t]) THEN [q EXCEPT ![t] = Some(Drained(Unwrap(@), count))]
  ELSE q

\* admin::clear_signals
clear_signals(t, bet_count, move_count) ==
  LET c == [Call("clear_signals", "admin", t) EXCEPT !.amount = bet_count,
                                                    !.round = move_count] IN
  /\ pending_bets' = ClearedQueues(pending_bets, t, bet_count)
  /\ pending_moves' = ClearedQueues(pending_moves, t, move_count)
  /\ UNCHANGED <<accounts, storage_ok, total_supply, total_cards_burned,
                 blackjack_stats, game_tables, now>>
  /\ Returns(c, "done")

\* admin::close_table: the refunds of emergency_refund_table, then table::remove_table
close_table(t) ==
  LET c == Call("close_table", "admin", t) IN
  IF game_tables[t] = None THEN UNCHANGED cvars /\ Returns(c, "done")
  ELSE
    LET table == Unwrap(game_tables[t])
        total == RefundedTotal(table.players)
    IN /\ accounts' = RefundAll(accounts, table.players)
       /\ total_supply' = total_supply + total
       /\ blackjack_stats' = [blackjack_stats EXCEPT
                                !.total_tokens_burned_betting = @ - total,
                                !.active_tables = IF @ > 0 THEN @ - 1 ELSE 0]
       /\ game_tables' = [game_tables EXCEPT ![t] = None]
       /\ pending_bets' = [pending_bets EXCEPT ![t] = None]
       /\ pending_moves' = [pending_moves EXCEPT ![t] = None]
       /\ UNCHANGED <<storage_ok, total_cards_burned, now>>
       /\ Returns(c, "done")

\* table::remove_table: the table and both its queues are removed and the table
\* counter goes down; nothing is written when the table is absent
remove_table(t) ==
  LET c == Call("remove_table", "admin", t) IN
  IF game_tables[t] = None THEN UNCHANGED cvars /\ Returns(c, "done")
  ELSE /\ game_tables' = [game_tables EXCEPT ![t] = None]
       /\ pending_bets' = [pending_bets EXCEPT ![t] = None]
       /\ pending_moves' = [pending_moves EXCEPT ![t] = None]
       /\ blackjack_stats' = [blackjack_stats EXCEPT
                                !.active_tables = IF @ > 0 THEN @ - 1 ELSE 0]
       /\ UNCHANGED <<accounts, storage_ok, total_supply, total_cards_burned, now>>
       /\ Returns(c, "done")

\* table::is_table_expired for a table that exists
is_table_expired(t, timeout_ms) ==
  IF IsSome(game_tables[t])
  THEN now - Unwrap(game_tables[t]).last_activity > timeout_ms
  ELSE TRUE

\* table::cleanup_expired_tables: remove_table for every stored table that is
\* expired; the outcome is the number of tables removed
cleanup_expired_tables(timeout_ms) ==
  LET c == [Call("cleanup_expired_tables", "admin", "") EXCEPT !.timeout = timeout_ms]
      tables_to_remove == {t \in TableIds :
                             IsSome(game_tables[t]) /\ is_table_expired(t, timeout_ms)}
      removed_count == Cardinality(tables_to_remove)
  IN /\ game_tables' = [t \in TableIds |->
                          IF t \in tables_to_remove THEN None ELSE game_tables[t]]
     /\ pending_bets' = [t \in TableIds |->
                           IF t \in tables_to_remove THEN None ELSE pending_bets[t]]
     /\ pending_moves' = [t \in TableIds |->
                            IF t \in tables_to_remove THEN None ELSE pending_moves[t]]
     /\ blackjack_stats' = [blackjack_stats EXCEPT
                              !.active_tables = IF @ > removed_count
                                                THEN @ - removed_count ELSE 0]
     /\ UNCHANGED <<accounts, storage_ok, total_supply, total_cards_burned, now>>
     /\ Returns([c EXCEPT !.amount = removed_count], "count")

\* admin::set_table_active
set_table_active(t, is_active) ==
  LET c == [Call("set_table_active", "admin", t) EXCEPT
              !.target = IF is_active THEN "active" ELSE "paused"] IN
  IF game_tables[t] = None THEN ReturnFalse(c)
  ELSE /\ game_tables' = [game_tables EXCEPT
                            ![t] = Some([Unwrap(@) EXCEPT !.is_active = is_active,
                                                          !.last_activity = now])]
       /\ UNCHANGED <<accounts, storage_ok, total_supply, total_cards_burned,
                      blackjack_stats, pending_bets, pending_moves, now>>
       /\ Returns(c, "true")


\* ------------------------------------------------------------ lib.rs
\* CardsContract::clear_all_pending_signals
clear_all_pending_signals(t) ==
  LET c == Call("clear_all_pending_signals", "admin", t) IN
  /\ pending_bets' = [pending_bets EXCEPT ![t] = Some(<<>>)]
  /\ pending_moves' = [pending_moves EXCEPT ![t] = Some(<<>>)]
  /\ UNCHANGED <<accounts, storage_ok, total_supply, total_cards_burned,
                 blackjack_stats, game_tables, now>>
  /\ Returns(c, "done")

\* CardsContract::cleanup_round_signals
cleanup_round_signals(t, round_number) ==
  LET c == [Call("cleanup_round_signals", "admin", t) EXCEPT !.round = round_number] IN
  IF game_tables[t] = None THEN UNCHANGED cvars /\ Returns(c, "done")
  ELSE IF ~(round_number >= Unwrap(game_tables[t]).round_number) THEN Abort(c)
  ELSE /\ pending_bets' = [pending_bets EXCEPT ![t] = Some(<<>>)]
       /\ pending_moves' = [pending_moves EXCEPT ![t] = Some(<<>>)]
       /\ UNCHANGED <<accounts, storage_ok, total_supply, total_cards_burned,
                      blackjack_stats, game_tables, now>>
       /\ Returns(c, "done")

\* the block timestamp moves on between two calls
Tick ==
  /\ now' = now + 1
  /\ UNCHANGED <<accounts, storage_ok, total_supply, total_cards_burned,
                 blackjack_stats, game_tables, pending_bets, pending_moves>>
  /\ Returns(Call("tick", "", ""), "done")

\* test_full_game_round (lib.rs): the calls of one full round by alice on a
\* freshly created table, in order
FullRound ==
  << [Call("create_table", "admin", "t1") EXCEPT !.ret = "true"],
     [Call("join_table", "alice", "t1") EXCEPT !.seat = 1],
     [Call("advance_game_state", "admin", "t1") EXCEPT !.target = "Betting"],
     [Call("place_bet", "alice", "t1") EXCEPT !.amount = 10],
     [Call("advance_game_state", "admin", "t1") EXCEPT !.target = "PlayerTurn"],
     [Call("signal_move", "alice", "t1") EXCEPT !.move = "Double", !.hand = Some(0)],
     [Call("distribute_winnings", "admin", "t1") EXCEPT
        !.round = 1, !.dist = <<[account_id |-> "alice", winnings |-> 40]>>] >>

\* how far the run has followed FullRound (-1 once it has left it)
ScenStep(s, call) ==
  IF s >= 0 /\ s < Len(FullRound) /\ call = FullRound[s + 1] THEN s + 1 ELSE -1

\* the distributions: one entry for alice, one for the unknown dave, and dave's
\* entry followed by alice's
DistInputs ==
  {<<[account_id |-> a, winnings |-> w]>> : a \in {"alice", "dave"}, w \in WinningsInputs}
  \cup {<<[account_id |-> "dave", winnings |-> w], [account_id |-> "alice", winnings |-> w]>> :
          w \in WinningsInputs}

QueueLen(q, t) == Len(unwrap_or_default(q[t]))

RoundNumber(t) == IF IsSome(game_tables[t]) THEN Unwrap(game_tables[t]).round_number ELSE 0

\* the stake signal_move would burn for the caller
DoubleAmount(caller, t, move_type) ==
  IF move_type = "Double" /\ IsSome(game_tables[t])
     /\ IsSome(Position(Unwrap(game_tables[t]).players, caller))
  THEN At(Unwrap(game_tables[t]).players,
          Unwrap(Position(Unwrap(game_tables[t]).players, caller))).burned_tokens
  ELSE 0

\* the outcomes of a call that was rejected without any write
Rejected == {"false", "abort"}

\* a run makes at most MaxSteps calls and ends with its first rejected call
Bounded == steps < MaxSteps /\ last.ret \notin Rejected

\* the bookkeeping of a call: the call count and the progress along FullRound
Counted == steps' = steps + 1 /\ scen' = ScenStep(scen, last')

\* a call made on the game functions directly, as the unit tests of the game
\* modules make them: the pause switch and the admin list are not involved
Tracked == Counted /\ UNCHANGED <<avars, env>>

Call_create_table ==
  /\ Bounded
  /\ \E t \in TableInputs : create_table(t)
  /\ Tracked

Call_join_table ==
  /\ Bounded
  /\ \E a \in Callers, t \in TableInputs, seat \in SeatInputs : join_table(a, t, seat)
  /\ Tracked

Call_leave_table ==
  /\ Bounded
  /\ \E a \in Registered, t \in TableInputs : leave_table(a, t)
  /\ Tracked

Call_place_bet ==
  /\ Bounded
  /\ \E a \in Callers, t \in TableInputs, amount \in BetAmounts :
       /\ total_cards_burned + amount <= MaxBurned
       /\ QueueLen(pending_bets, t) < MaxQueue
       /\ place_bet(a, t, amount)
  /\ Tracked

Call_signal_move ==
  /\ Bounded
  /\ \E a \in Registered, t \in TableInputs, m \in Moves, h \in HandInputs :
       /\ total_cards_burned + DoubleAmount(a, t, m) <= MaxBurned
       /\ QueueLen(pending_moves, t) < MaxQueue
       /\ signal_move(a, t, m, h)
  /\ Tracked

Call_distribute_winnings ==
  /\ Bounded
  /\ \E t \in TableInputs, r \in RoundInputs, d \in DistInputs :
       /\ r >= RoundNumber(t) =>
            blackjack_stats.total_winnings_distributed + TotalMinted(d) <= MaxMinted
       /\ RoundNumber(t) < MaxRound \/ r < RoundNumber(t)
       /\ distribute_winnings(t, r, d)
  /\ Tracked

Call_advance_game_state ==
  /\ Bounded
  /\ \E t \in TableInputs, st \in GameStates :
       /\ st = "RoundEnded" => RoundNumber(t) < MaxRound
       /\ advance_game_state(t, st)
  /\ Tracked

Call_force_next_player ==
  /\ Bounded
  /\ \E t \in TableInputs : force_next_player(t)
  /\ Tracked

Call_set_current_player_admin ==
  /\ Bounded
  /\ \E t \in TableInputs, a \in Registered : set_current_player_admin(t, a)
  /\ Tracked

Call_set_current_player ==
  /\ Bounded
  /\ \E t \in TableInputs, a \in Registered : set_current_player(t, a)
  /\ Tracked

Call_kick_player ==
  /\ Bounded
  /\ \E t \in TableInputs, a \in Registered : kick_player(t, a)
  /\ Tracked

Call_set_table_active ==
  /\ Bounded
  /\ \E t \in TableInputs, b \in BOOLEAN : set_table_active(t, b)
  /\ Tracked

Call_set_table_state ==
  /\ Bounded
  /\ \E t \in TableInputs, st \in SetStateInputs : set_table_state(t, st)
  /\ Tracked

Call_emergency_refund_table ==
  /\ Bounded
  /\ \E t \in TableInputs : emergency_refund_table(t)
  /\ Tracked

Call_clear_signals ==
  /\ Bounded
  /\ \E t \in TableInputs, n \in ClearInputs : clear_signals(t, n[1], n[2])
  /\ Tracked

Call_clear_all_pending_signals ==
  /\ Bounded
  /\ \E t \in TableInputs : clear_all_pending_signals(t)
  /\ Tracked

Call_cleanup_round_signals ==
  /\ Bounded
  /\ \E t \in TableInputs, r \in RoundInputs : cleanup_round_signals(t, r)
  /\ Tracked

Call_close_table ==
  /\ Bounded
  /\ \E t \in TableInputs : close_table(t)
  /\ Tracked

Call_cleanup_inactive_players ==
  /\ Bounded
  /\ \E t \in TableInputs, timeout_ms \in TimeoutInputs : cleanup_inactive_players(t, timeout_ms)
  /\ Tracked

BlockProduced ==
  /\ Bounded
  /\ now < MaxNow
  /\ Tick
  /\ Tracked

Next ==
  \/ Call_create_table
  \/ Call_join_table
  \/ Call_leave_table
  \/ Call_place_bet
  \/ Call_signal_move
  \/ Call_distribute_winnings
  \/ Call_advance_game_state
  \/ Call_force_next_player
  \/ Call_set_current_player_admin
  \/ Call_set_current_player
  \/ Call_kick_player
  \/ Call_set_table_active
  \/ Call_set_table_state
  \/ Call_emergency_refund_table
  \/ Call_clear_signals
  \/ Call_clear_all_pending_signals
  \/ Call_cleanup_round_signals
  \/ Call_close_table
  \/ Call_cleanup_inactive_players
  \/ BlockProduced

Spec == Init /\ [][Next]_vars

\* the same calls in shorter runs
Mid(A) == steps < MaxMidSteps /\ A
Short(A) == steps < MaxShortSteps /\ A

NextMid ==
  \/ Mid(Call_create_table)
  \/ Mid(Call_join_table)
  \/ Mid(Call_leave_table)
  \/ Mid(Call_place_bet)
  \/ Mid(Call_signal_move)
  \/ Mid(Call_distribute_winnings)
  \/ Mid(Call_advance_game_state)
  \/ Mid(Call_force_next_player)
  \/ Mid(Call_set_current_player_admin)
  \/ Mid(Call_set_current_player)
  \/ Mid(Call_kick_player)
  \/ Mid(Call_set_table_active)
  \/ Mid(Call_set_table_state)
  \/ Mid(Call_emergency_refund_table)
  \/ Mid(Call_clear_signals)
  \/ Mid(Call_clear_all_pending_signals)
  \/ Mid(Call_cleanup_round_signals)
  \/ Mid(Call_close_table)
  \/ Mid(Call_cleanup_inactive_players)
  \/ Mid(BlockProduced)

SpecMid == Init /\ [][NextMid]_vars

NextShort ==
  \/ Short(Call_create_table)
  \/ Short(Call_join_table)
  \/ Short(Call_leave_table)
  \/ Short(Call_place_bet)
  \/ Short(Call_signal_move)
  \/ Short(Call_distribute_winnings)
  \/ Short(Call_advance_game_state)
  \/ Short(Call_force_next_player)
  \/ Short(Call_set_current_player_admin)
  \/ Short(Call_set_current_player)
  \/ Short(Call_kick_player)
  \/ Short(Call_set_table_active)
  \/ Short(Call_set_table_state)
  \/ Short(Call_emergency_refund_table)
  \/ Short(Call_clear_signals)
  \/ Short(Call_clear_all_pending_signals)
  \/ Short(Call_cleanup_round_signals)
  \/ Short(Call_close_table)
  \/ Short(Call_cleanup_inactive_players)
  \/ Short(BlockProduced)

SpecShort == Init /\ [][NextShort]_vars

\* ------------------------------------------------- the runs with table removal
Call_remove_table ==
  /\ Bounded
  /\ \E t \in TableInputs : remove_table(t)
  /\ Tracked

Call_cleanup_expired_tables ==
  /\ Bounded
  /\ \E timeout_ms \in TimeoutInputs : cleanup_expired_tables(timeout_ms)
  /\ Tracked

\* the calls of Spec and the two housekeeping functions of table.rs that remove
\* tables
NextRemoval ==
  \/ Short(Call_create_table)
  \/ Short(Call_join_table)
  \/ Short(Call_leave_table)
  \/ Short(Call_place_bet)
  \/ Short(Call_signal_move)
  \/ Short(Call_distribute_winnings)
  \/ Short(Call_advance_game_state)
  \/ Short(Call_force_next_player)
  \/ Short(Call_set_current_player_admin)
  \/ Short(Call_set_current_player)
  \/ Short(Call_kick_player)
  \/ Short(Call_set_table_active)
  \/ Short(Call_set_table_state)
  \/ Short(Call_emergency_refund_table)
  \/ Short(Call_clear_signals)
  \/ Short(Call_clear_all_pending_signals)
  \/ Short(Call_cleanup_round_signals)
  \/ Short(Call_close_table)
  \/ Short(Call_cleanup_inactive_players)
  \/ Short(BlockProduced)
  \/ Short(Call_remove_table)
  \/ Short(Call_cleanup_expired_tables)

SpecRemoval == Init /\ [][NextRemoval]_vars

\* ------------------------------------------- lib.rs: the public entry points
\* the accounts that sign calls of the admin entry points, and the account
\* that add_game_admin / remove_game_admin name
AdminCallers == {"owner", "carol"}
AdminInputs == {"carol"}
PauseReasons == {"upgrade"}

\* Option::unwrap_or
unwrap_or(o, d) == IF IsSome(o) THEN Unwrap(o) ELSE d

PauseIgnored == TRUE

\* the condition of assert_not_paused
NotPaused == ~unwrap_or(is_globally_paused, FALSE)

\* the condition of assert_owner
IsOwner(caller) == caller = owner_id

AnyoneIsAdmin(caller) == TRUE

\* the condition of assert_admin
IsAdmin(caller) == caller = owner_id \/ caller \in game_admins

\* get_single_table_id is game_tables.keys().next(): the stored table when there
\* is one; with several it is one of them, by the order of the map's key vector
SingleTableIds == {t \in TableIds : IsSome(game_tables[t])}

\* a failed assert_not_paused / assert_owner / assert_admin
Refused(method, caller, t) ==
  /\ UNCHANGED avars
  /\ Abort(Call(method, caller, t))

Enters(method, caller) == env' = Entered(method, caller, env.was_paused)

\* CardsContract::create_game_table
CardsContract_create_game_table(caller, t) ==
  /\ Enters("create_game_table", caller)
  /\ create_table(t)
  /\ UNCHANGED avars

\* CardsContract::join_game_table
CardsContract_join_game_table(caller, t, seat) ==
  /\ Enters("join_game_table", caller)
  /\ IF NotPaused THEN join_table(caller, t, seat) /\ UNCHANGED avars
     ELSE Refused("join_game_table", caller, t)

\* CardsContract::place_bet
CardsContract_place_bet(caller, t, amount) ==
  /\ Enters("place_bet", caller)
  /\ IF NotPaused THEN place_bet(caller, t, amount) /\ UNCHANGED avars
     ELSE Refused("place_bet", caller, t)

\* CardsContract::signal_move
CardsContract_signal_move(caller, t, move_type, hand_index) ==
  /\ Enters("signal_move", caller)
  /\ IF NotPaused THEN signal_move(caller, t, move_type, hand_index) /\ UNCHANGED avars
     ELSE Refused("signal_move", caller, t)

\* CardsContract::distribute_winnings
CardsContract_distribute_winnings(caller, t, round, dist) ==
  /\ Enters("distribute_winnings", caller)
  /\ IF IsAdmin(caller) THEN distribute_winnings(t, round, dist) /\ UNCHANGED avars
     ELSE Refused("distribute_winnings", caller, t)

\* CardsContract::advance_game_state
CardsContract_advance_game_state(caller, t, new_state) ==
  /\ Enters("advance_game_state", caller)
  /\ IF IsAdmin(caller) THEN advance_game_state(t, new_state) /\ UNCHANGED avars
     ELSE Refused("advance_game_state", caller, t)

\* CardsContract::clear_processed_signals
CardsContract_clear_processed_signals(caller, t, bet_count, move_count) ==
  /\ Enters("clear_processed_signals", caller)
  /\ IF IsAdmin(caller) THEN clear_signals(t, bet_count, move_count) /\ UNCHANGED avars
     ELSE Refused("clear_processed_signals", caller, t)

\* CardsContract::close_table
CardsContract_close_table(caller, t) ==
  /\ Enters("close_table", caller)
  /\ IF IsAdmin(caller) THEN close_table(t) /\ UNCHANGED avars
     ELSE Refused("close_table", caller, t)

\* CardsContract::kick_player_by_account
CardsContract_kick_player_by_account(caller, account_id) ==
  /\ Enters("kick_player_by_account", caller)
  /\ IF ~IsAdmin(caller) THEN Refused("kick_player_by_account", caller, "")
     ELSE /\ UNCHANGED avars
          /\ \/ /\ SingleTableIds = {}
                /\ UNCHANGED cvars
                /\ Returns([Call("kick_player_by_account", caller, "") EXCEPT
                              !.target = account_id], "false")
             \/ \E id \in SingleTableIds : kick_player(id, account_id)

\* CardsContract::clear_all_pending_signals
CardsContract_clear_all_pending_signals(caller, t) ==
  /\ Enters("clear_all_pending_signals", caller)
  /\ IF IsAdmin(caller) THEN clear_all_pending_signals(t) /\ UNCHANGED avars
     ELSE Refused("clear_all_pending_signals", caller, t)

\* CardsContract::emergency_end_round_with_refunds
CardsContract_emergency_end_round_with_refunds(caller, t) ==
  /\ Enters("emergency_end_round_with_refunds", caller)
  /\ IF IsAdmin(caller) THEN emergency_refund_table(t) /\ UNCHANGED avars
     ELSE Refused("emergency_end_round_with_refunds", caller, t)

\* CardsContract::cleanup_round_signals
CardsContract_cleanup_round_signals(caller, t, round_number) ==
  /\ Enters("cleanup_round_signals", caller)
  /\ IF IsAdmin(caller) THEN cleanup_round_signals(t, round_number) /\ UNCHANGED avars
     ELSE Refused("cleanup_round_signals", caller, t)

\* CardsContract::add_game_admin
add_game_admin(caller, account_id) ==
  /\ Enters("add_game_admin", caller)
  /\ IF ~IsOwner(caller) THEN Refused("add_game_admin", caller, "")
     ELSE /\ game_admins' = game_admins \cup {account_id}
          /\ UNCHANGED <<cvars, is_globally_paused, pause_reason>>
          /\ Returns([Call("add_game_admin", caller, "") EXCEPT !.target = account_id],
                     "done")

\* CardsContract::remove_game_admin
remove_game_admin(caller, account_id) ==
  /\ Enters("remove_game_admin", caller)
  /\ IF ~IsOwner(caller) THEN Refused("remove_game_admin", caller, "")
     ELSE /\ game_admins' = game_admins \ {account_id}
          /\ UNCHANGED <<cvars, is_globally_paused, pause_reason>>
          /\ Returns([Call("remove_game_admin", caller, "") EXCEPT !.target = account_id],
                     "done")

\* the pause switch set, and the single table (if any) set active or paused
\* by admin::set_table_active
SwitchedPause(c, paused, reason) ==
  /\ is_globally_paused' = Some(paused)
  /\ pause_reason' = reason
  /\ UNCHANGED game_admins
  /\ \/ /\ SingleTableIds = {}
        /\ UNCHANGED cvars
     \/ \E id \in SingleTableIds :
          /\ game_tables' = [game_tables EXCEPT
                               ![id] = Some([Unwrap(@) EXCEPT !.is_active = ~paused,
                                                              !.last_activity = now])]
          /\ UNCHANGED <<accounts, storage_ok, total_supply, total_cards_burned,
                         blackjack_stats, pending_bets, pending_moves, now>>
  /\ Returns(c, "done")

\* CardsContract::global_pause
global_pause(caller, reason) ==
  IF ~IsOwner(caller)
  THEN Enters("global_pause", caller) /\ Refused("global_pause", caller, "")
  ELSE /\ env' = Entered("global_pause", caller, TRUE)
       /\ SwitchedPause(Call("global_pause", caller, ""), TRUE, Some(reason))

\* CardsContract::global_resume
global_resume(caller) ==
  /\ Enters("global_resume", caller)
  /\ IF ~IsOwner(caller) THEN Refused("global_resume", caller, "")
     ELSE SwitchedPause(Call("global_resume", caller, ""), FALSE, None)

\* the calls that arrive through the entry points
Sent_create_game_table ==
  /\ Bounded
  /\ \E a \in Registered, t \in TableInputs : CardsContract_create_game_table(a, t)
  /\ Counted

Sent_join_game_table ==
  /\ Bounded
  /\ \E a \in Callers, t \in TableInputs, seat \in SeatInputs :
       CardsContract_join_game_table(a, t, seat)
  /\ Counted

Sent_place_bet ==
  /\ Bounded
  /\ \E a \in Callers, t \in TableInputs, amount \in BetAmounts :
       /\ total_cards_burned + amount <= MaxBurned
       /\ QueueLen(pending_bets, t) < MaxQueue
       /\ CardsContract_place_bet(a, t, amount)
  /\ Counted

Sent_signal_move ==
  /\ Bounded
  /\ \E a \in Registered, t \in TableInputs, m \in Moves, h \in HandInputs :
       /\ total_cards_burned + DoubleAmount(a, t, m) <= MaxBurned
       /\ QueueLen(pending_moves, t) < MaxQueue
       /\ CardsContract_signal_move(a, t, m, h)
  /\ Counted

Sent_distribute_winnings ==
  /\ Bounded
  /\ \E c \in AdminCallers, t \in TableInputs, r \in RoundInputs, d \in DistInputs :
       /\ r >= RoundNumber(t) =>
            blackjack_stats.total_winnings_distributed + TotalMinted(d) <= MaxMinted
       /\ RoundNumber(t) < MaxRound \/ r < RoundNumber(t)
       /\ CardsContract_distribute_winnings(c, t, r, d)
  /\ Counted

Sent_advance_game_state ==
  /\ Bounded
  /\ \E c \in AdminCallers, t \in TableInputs, st \in GameStates :
       /\ st = "RoundEnded" => RoundNumber(t) < MaxRound
       /\ CardsContract_advance_game_state(c, t, st)
  /\ Counted

Sent_clear_processed_signals ==
  /\ Bounded
  /\ \E c \in AdminCallers, t \in TableInputs, n \in ClearInputs :
       CardsContract_clear_processed_signals(c, t, n[1], n[2])
  /\ Counted

Sent_close_table ==
  /\ Bounded
  /\ \E c \in AdminCallers, t \in TableInputs : CardsContract_close_table(c, t)
  /\ Counted

Sent_kick_player_by_account ==
  /\ Bounded
  /\ \E c \in AdminCallers, a \in Registered : CardsContract_kick_player_by_account(c, a)
  /\ Counted

Sent_clear_all_pending_signals ==
  /\ Bounded
  /\ \E c \in AdminCallers, t \in TableInputs : CardsContract_clear_all_pending_signals(c, t)
  /\ Counted

Sent_emergency_end_round_with_refunds ==
  /\ Bounded
  /\ \E c \in AdminCallers, t \in TableInputs :
       CardsContract_emergency_end_round_with_refunds(c, t)
  /\ Counted

Sent_cleanup_round_signals ==
  /\ Bounded
  /\ \E c \in AdminCallers, t \in TableInputs, r \in RoundInputs :
       CardsContract_cleanup_round_signals(c, t, r)
  /\ Counted

Sent_add_game_admin ==
  /\ Bounded
  /\ \E c \in AdminCallers, a \in AdminInputs : add_game_admin(c, a)
  /\ Counted

Sent_remove_game_admin ==
  /\ Bounded
  /\ \E c \in AdminCallers, a \in AdminInputs : remove_game_admin(c, a)
  /\ Counted

Sent_global_pause ==
  /\ Bounded
  /\ \E c \in AdminCallers, reason \in PauseReasons : global_pause(c, reason)
  /\ Counted

Sent_global_resume ==
  /\ Bounded
  /\ \E c \in AdminCallers : global_resume(c)
  /\ Counted

NextAccess ==
  \/ Short(Sent_create_game_table)
  \/ Short(Sent_join_game_table)
  \/ Short(Sent_place_bet)
  \/ Short(Sent_signal_move)
  \/ Short(Sent_distribute_winnings)
  \/ Short(Sent_advance_game_state)
  \/ Short(Sent_clear_processed_signals)
  \/ Short(Sent_close_table)
  \/ Short(Sent_kick_player_by_account)
  \/ Short(Sent_clear_all_pending_signals)
  \/ Short(Sent_emergency_end_round_with_refunds)
  \/ Short(Sent_cleanup_round_signals)
  \/ Short(Sent_add_game_admin)
  \/ Short(Sent_remove_game_admin)
  \/ Short(Sent_global_pause)
  \/ Short(Sent_global_resume)

\* the runs in which every call passes through its entry point of lib.rs
SpecAccess == Init /\ [][NextAccess]_vars

\* ----------------------------------------------- tokens.rs: the daily claim
\* tokens::has_sufficient_storage, with the deposit comparison abstracted to
\* membership in storage_ok (no account of the model holds a deposit that
\* covers the user cost but not the player cost)
has_sufficient_storage(a) == a \in storage_ok

ClaimedUncounted(a, amount) ==
  /\ accounts' = [accounts EXCEPT ![a] = Some([Unwrap(@) EXCEPT !.balance = @ + amount,
                                                               !.last_claim_time = now])]
  /\ UNCHANGED total_supply

\* claim_daily_cards: the update of the user and of the contract stats
Claimed(a, amount) ==
  /\ accounts' = [accounts EXCEPT ![a] = Some([Unwrap(@) EXCEPT !.balance = @ + amount,
                                                               !.last_claim_time = now])]
  /\ total_supply' = total_supply + amount

\* tokens::claim_daily_cards
claim_daily_cards(caller) ==
  LET c == Call("claim_daily_cards", caller, "") IN
  IF ~has_sufficient_storage(caller) THEN Abort(c)
  ELSE IF accounts[caller] = None THEN Abort(c)
  ELSE LET user == Unwrap(accounts[caller])
           time_since_last == now - user.last_claim_time IN
       IF ~(time_since_last >= claim_interval_ms) THEN Abort(c)
       ELSE /\ Claimed(caller, daily_claim_amount)
            /\ UNCHANGED <<storage_ok, total_cards_burned, blackjack_stats, game_tables,
                           pending_bets, pending_moves, now>>
            /\ Returns([c EXCEPT !.amount = daily_claim_amount], "count")

\* CardsContract::claim_daily_cards
CardsContract_claim_daily_cards(caller) ==
  /\ Enters("claim_daily_cards", caller)
  /\ IF NotPaused THEN claim_daily_cards(caller) /\ UNCHANGED avars
     ELSE Refused("claim_daily_cards", caller, "")

Sent_claim_daily_cards ==
  /\ Bounded
  /\ \E a \in Callers : CardsContract_claim_daily_cards(a)
  /\ Counted

\* the calls that move tokens: the daily claim, and the game calls that burn,
\* refund or mint, with the calls that lead up to them
NextTokens ==
  \/ Mid(Sent_claim_daily_cards)
  \/ Mid(Call_create_table)
  \/ Mid(Call_join_table)
  \/ Mid(Call_advance_game_state)
  \/ Mid(Call_place_bet)
  \/ Mid(Call_signal_move)
  \/ Mid(Call_distribute_winnings)
  \/ Mid(Call_leave_table)
  \/ Mid(Call_kick_player)
  \/ Mid(Call_cleanup_inactive_players)
  \/ Mid(Call_close_table)
  \/ Mid(Call_emergency_refund_table)
  \/ Mid(BlockProduced)

SpecTokens == Init /\ [][NextTokens]_vars

\* ------------------------------------------------ the runs with two tables
\* the calls made in a run over two tables
MaxTableSteps == 6

BoundedTables == steps < MaxTableSteps /\ last.ret \notin Rejected

AnyTable_create_table ==
  /\ BoundedTables
  /\ \E t \in TableIds : create_table(t)
  /\ Tracked

AnyTable_join_table ==
  /\ BoundedTables
  /\ \E a \in Registered, t \in TableIds, seat \in SeatInputs : join_table(a, t, seat)
  /\ Tracked

AnyTable_leave_table ==
  /\ BoundedTables
  /\ \E a \in Registered, t \in TableIds : leave_table(a, t)
  /\ Tracked

AnyTable_place_bet ==
  /\ BoundedTables
  /\ \E a \in Registered, t \in TableIds, amount \in BetAmounts :
       /\ total_cards_burned + amount <= MaxBurned
       /\ QueueLen(pending_bets, t) < MaxQueue
       /\ place_bet(a, t, amount)
  /\ Tracked

AnyTable_signal_move ==
  /\ BoundedTables
  /\ \E a \in Registered, t \in TableIds, m \in Moves, h \in HandInputs :
       /\ total_cards_burned + DoubleAmount(a, t, m) <= MaxBurned
       /\ QueueLen(pending_moves, t) < MaxQueue
       /\ signal_move(a, t, m, h)
  /\ Tracked

AnyTable_distribute_winnings ==
  /\ BoundedTables
  /\ \E t \in TableIds, r \in RoundInputs, d \in DistInputs :
       /\ r >= RoundNumber(t) =>
            blackjack_stats.total_winnings_distributed + TotalMinted(d) <= MaxMinted
       /\ RoundNumber(t) < MaxRound \/ r < RoundNumber(t)
       /\ distribute_winnings(t, r, d)
  /\ Tracked

AnyTable_advance_game_state ==
  /\ BoundedTables
  /\ \E t \in TableIds, st \in GameStates :
       /\ st = "RoundEnded" => RoundNumber(t) < MaxRound
       /\ advance_game_state(t, st)
  /\ Tracked

AnyTable_clear_signals ==
  /\ BoundedTables
  /\ \E t \in TableIds, n \in ClearInputs : clear_signals(t, n[1], n[2])
  /\ Tracked

AnyTable_force_next_player ==
  /\ BoundedTables
  /\ \E t \in TableIds : force_next_player(t)
  /\ Tracked

AnyTable_kick_player ==
  /\ BoundedTables
  /\ \E t \in TableIds, a \in Registered : kick_player(t, a)
  /\ Tracked

AnyTable_emergency_refund_table ==
  /\ BoundedTables
  /\ \E t \in TableIds : emergency_refund_table(t)
  /\ Tracked

AnyTable_close_table ==
  /\ BoundedTables
  /\ \E t \in TableIds : close_table(t)
  /\ Tracked

NextTables ==
  \/ AnyTable_create_table
  \/ AnyTable_join_table
  \/ AnyTable_leave_table
  \/ AnyTable_place_bet
  \/ AnyTable_signal_move
  \/ AnyTable_distribute_winnings
  \/ AnyTable_advance_game_state
  \/ AnyTable_clear_signals
  \/ AnyTable_force_next_player
  \/ AnyTable_kick_player
  \/ AnyTable_emergency_refund_table
  \/ AnyTable_close_table

\* the table-scoped calls of the game modules, each naming either of two tables
SpecTables == Init /\ [][NextTables]_vars


\* ================================================================ claims
\* helpers of the claims: what a state says about an account and a table
SumBalances == SetSum([a \in Callers |-> get_balance(a)], Callers)

StakesAt(t) ==
  IF IsSome(game_tables[t])
  THEN SeqSum([i \in 1 .. Len(Unwrap(game_tables[t]).players) |->
                 Unwrap(game_tables[t]).players[i].burned_tokens])
  ELSE 0

SumStaked == SetSum([t \in TableIds |-> StakesAt(t)], TableIds)

PlayersAt(t) == IF IsSome(game_tables[t]) THEN Unwrap(game_tables[t]).players ELSE <<>>

IsSeated(a, t) == \E i \in 1 .. Len(PlayersAt(t)) : PlayersAt(t)[i].account_id = a

\* the seated record of account a at table t (a is seated there)
Seat(a, t) ==
  PlayersAt(t)[CHOOSE i \in 1 .. Len(PlayersAt(t)) : PlayersAt(t)[i].account_id = a]

SeatTaken(seat, t) == \E i \in 1 .. Len(PlayersAt(t)) : PlayersAt(t)[i].seat_number = seat

\* the account the table's current_player_index designates, if any
Designated(t) ==
  IF IsSome(game_tables[t])
     /\ IsSome(Unwrap(game_tables[t]).current_player_index)
     /\ Unwrap(Unwrap(game_tables[t]).current_player_index) < Len(PlayersAt(t))
  THEN Some(At(PlayersAt(t), Unwrap(Unwrap(game_tables[t]).current_player_index)).account_id)
  ELSE None

\* the checks signal_move makes whatever the player signalled before
MoveChecksPass(a, t, m) ==
  /\ IsSome(game_tables[t])
  /\ Unwrap(game_tables[t]).state = "PlayerTurn"
  /\ Unwrap(game_tables[t]).is_active
  /\ IsSeated(a, t)
  /\ Designated(t) = Some(a)
  /\ Seat(a, t).state = "Active"
  /\ m = "Double" => get_balance(a) >= Seat(a, t).burned_tokens

\* the step is the call op by a on t
IsCall(op, a, t) == last'.op = op /\ last'.caller = a /\ last'.table = t

\* ---- C1 as stated: at every point between calls, the sum of all account
\* balances plus the sum of the stakes of the seated players equals total_supply.
C1_BalancesPlusStakesIsSupply == SumBalances + SumStaked = total_supply

\* ---- C1 amended: at every point between calls the sum of all account balances
\* alone equals total_supply; a stake is burned out of total_supply when it is
\* placed or doubled and is not part of it until it is refunded or paid out.
C1_BalancesIsSupply == SumBalances = total_supply

C1_Witness ==
  /\ last.op = "signal_move" /\ last.move = "Double" /\ last.ret = "true"
  /\ SumStaked > 0
  /\ blackjack_stats.total_winnings_distributed > 0

\* ---- C2: in every reachable state no two seated players of a table share a
\* seat_number and no account is seated twice; and a join_table that asks for an
\* occupied seat, or whose caller already sits at the table, returns false and
\* changes nothing.
SeatsExclusive ==
  \A t \in TableIds : \A i, j \in 1 .. Len(PlayersAt(t)) :
    i # j => /\ PlayersAt(t)[i].seat_number # PlayersAt(t)[j].seat_number
             /\ PlayersAt(t)[i].account_id # PlayersAt(t)[j].account_id

JoinOfTakenSeatRejected ==
  \A a \in Callers, t \in TableIds :
    (IsCall("join_table", a, t) /\ (SeatTaken(last'.seat, t) \/ IsSeated(a, t)))
      => (last'.ret = "false" /\ UNCHANGED cvars)

C2_SeatExclusivity == []SeatsExclusive /\ [][JoinOfTakenSeatRejected]_vars

C2_Witness ==
  /\ last.op = "join_table" /\ last.ret = "false"
  /\ last.caller \in storage_ok
  /\ IsSome(game_tables[last.table]) /\ Unwrap(game_tables[last.table]).is_active
  /\ ~IsSeated(last.caller, last.table)
  /\ SeatTaken(last.seat, last.table)

\* ---- C3: signal_move succeeds only when the caller is the seated player that
\* current_player_index designates at the moment of the call, also right after
\* an admin override of the turn or a leave_table.
MoveOnlyByDesignated ==
  \A a \in Callers, t \in TableIds :
    (IsCall("signal_move", a, t) /\ last'.ret = "true") => Designated(t) = Some(a)

C3_TurnOwnership == [][MoveOnlyByDesignated]_vars

\* a successful move of a player without a stake: advance_game_state never makes
\* such a player current, so the turn was given by an override
C3_Witness ==
  /\ last.op = "signal_move" /\ last.ret = "true"
  /\ IsSeated(last.caller, last.table)
  /\ Seat(last.caller, last.table).burned_tokens = 0
  /\ Len(PlayersAt(last.table)) = 2

\* the player's latest signal of the round is Stand or Double
HandFinished(a, t) ==
  IsSeated(a, t) /\ Seat(a, t).pending_move \in {Some("Stand"), Some("Double")}

\* ---- C4 as stated: once a player has signalled Stand or Double in a round, no
\* later signal_move with Hit, Double or Split by that player succeeds until the
\* round is reset.
NoMoveOnFinishedHand ==
  \A a \in Callers, t \in TableIds :
    (HandFinished(a, t) /\ IsCall("signal_move", a, t)
       /\ last'.move \in {"Hit", "Double", "Split"})
      => last'.ret # "true"

MoveAfterFinishDecidedByChecks ==
  \A a \in Callers, t \in TableIds :
    (HandFinished(a, t) /\ IsCall("signal_move", a, t))
      => (last'.ret = "true" <=> MoveChecksPass(a, t, last'.move))

NoSecondSplit ==
  \A a \in Callers, t \in TableIds :
    (IsSeated(a, t) /\ Seat(a, t).pending_move = Some("Split")
       /\ IsCall("signal_move", a, t) /\ last'.move = "Split")
      => last'.ret # "true"

SplitDecidedByChecks ==
  \A a \in Callers, t \in TableIds :
    (IsCall("signal_move", a, t) /\ last'.move = "Split")
      => /\ last'.ret = "true" <=> MoveChecksPass(a, t, "Split")
         /\ accounts' = accounts /\ total_supply' = total_supply

StaleRoundRejected ==
  \A t \in TableIds :
    (IsCall("distribute_winnings", "admin", t) /\ IsSome(game_tables[t])
       /\ last'.round < Unwrap(game_tables[t]).round_number)
      => (last'.ret # "true" /\ UNCHANGED cvars)

C6_StaleSettlementFails == [][StaleRoundRejected]_vars

\* a rejected settlement that names an account with a record and a positive amount
C6_Witness ==
  /\ last.op = "distribute_winnings" /\ last.ret = "abort"
  /\ IsSome(game_tables[last.table])
  /\ last.round < Unwrap(game_tables[last.table]).round_number
  /\ \E i \in 1 .. Len(last.dist) :
       IsSome(accounts[last.dist[i].account_id]) /\ last.dist[i].winnings > 0

\* ---- C7: when a seated player with stake A > 0 calls leave_table while the
\* table is in Betting, the player's balance and total_supply each grow by exactly
\* A, total_tokens_burned_betting shrinks by exactly A, and the player is removed
\* from the table.
LeaveInBettingRefunds ==
  \A a \in Callers, t \in TableIds :
    (IsCall("leave_table", a, t) /\ IsSeated(a, t)
       /\ Unwrap(game_tables[t]).state = "Betting" /\ Seat(a, t).burned_tokens > 0)
      => LET A == Seat(a, t).burned_tokens IN
         /\ last'.ret = "true"
         /\ IsSome(accounts'[a])
         /\ Unwrap(accounts'[a]).balance = get_balance(a) + A
         /\ total_supply' = total_supply + A
         /\ blackjack_stats'.total_tokens_burned_betting =
              blackjack_stats.total_tokens_burned_betting - A
         /\ IsSome(game_tables'[t])
         /\ \A i \in 1 .. Len(Unwrap(game_tables'[t]).players) :
              Unwrap(game_tables'[t]).players[i].account_id # a

C7_LeaveRefund == [][LeaveInBettingRefunds]_vars

\* the fifth call of a run whose fourth placed a bet: create_table, join_table,
\* advance_game_state(Betting), place_bet, then the leave_table of the bettor
C7_Witness ==
  /\ steps = 5
  /\ last.op = "leave_table" /\ last.ret = "true"
  /\ total_cards_burned > 0
  /\ blackjack_stats.total_tokens_burned_betting = 0
  /\ get_balance(last.caller) = InitialBalance[last.caller]
  /\ ~IsSeated(last.caller, last.table)

\* the state after a run that made exactly the calls of FullRound, with the round
\* number the table is said to end with
FullRoundOutcome(final_round) ==
  LET t == "t1"
      X == "alice"
  IN /\ scen >= 2 /\ scen <= 6 => IsSeated(X, t) /\ Seat(X, t).seat_number = 1
     /\ scen = 4 =>
          /\ get_balance(X) = 990
          /\ Len(unwrap_or_default(pending_bets[t])) = 1
          /\ unwrap_or_default(pending_bets[t])[1].amount = 10
          /\ unwrap_or_default(pending_bets[t])[1].player_account = X
     /\ scen = 5 => Designated(t) = Some(X)
     /\ scen = 6 => get_balance(X) = 980 /\ Seat(X, t).burned_tokens = 20
     /\ scen = 7 =>
          /\ get_balance(X) = 1020
          /\ IsSeated(X, t)
          /\ Seat(X, t).burned_tokens = 0
          /\ Seat(X, t).pending_move = None
          /\ Unwrap(game_tables[t]).round_number = final_round
          /\ pending_bets[t] = Some(<<>>)
          /\ pending_moves[t] = Some(<<>>)

\* ---- C8 as stated: on a freshly created table X (balance 1000) joins seat 1;
\* after the advance to Betting place_bet(X, 10) gives balance 990 and exactly one
\* queued BetSignal of amount 10; the advance to PlayerTurn makes X current;
\* signal_move(X, Double) gives balance 980 and stake 20; distribute_winnings with
\* round 1 and winnings 40 gives balance 1020, X's round state cleared, both
\* queues empty and table round_number = 2.
C8_FullRoundEndsInRound2 == FullRoundOutcome(2)

\* ---- C8 amended: the same run and the same outcomes, except that the table's
\* round_number is 1 after the settlement (a table is created with round_number 0
\* and distribute_winnings adds one).
C8_FullRoundEndsInRound1 == FullRoundOutcome(1)

C8_Witness == scen = 7 /\ last.op = "distribute_winnings" /\ last.ret = "true"

PlayerFacing == {"join_table", "leave_table", "place_bet", "signal_move"}

\* ---- C9: every validation failure of a player-facing action (join, leave,
\* place_bet, signal_move) returns false instead of aborting the call, and leaves
\* the balances, total_supply, the tables and both signal queues unchanged.
C9_FailureReturnsFalse == last.op \in PlayerFacing => last.ret # "abort"

\* ---- C10: place_bet (with a valid denomination) and join_game_table naming a
\* table id that does not exist return false without aborting, for every caller,
\* a caller with no account or with too small a balance included.
C10_UnknownTableReturnsFalse ==
  (/\ last.op \in {"place_bet", "join_table"}
   /\ game_tables[last.table] = None
   /\ last.op = "place_bet" => last.amount \in valid_burn_amounts)
    => last.ret = "false"

\* the bet queue of table t
BetQueue(t) == unwrap_or_default(pending_bets[t])

\* the sum of the amounts of the BetSignals queued at table t
QueuedBetTotal(t) == SeqSum([i \in 1 .. Len(BetQueue(t)) |-> BetQueue(t)[i].amount])

\* ---- C11: a successful place_bet(table, amount) decreases the caller's balance
\* and total_supply by exactly amount, increases total_cards_burned and
\* total_tokens_burned_betting by exactly amount, sets the caller's stake to
\* amount, and appends exactly one BetSignal with that amount at the tail of the
\* table's bet queue; so the BetSignals visible in a queue never add up to more
\* than was burned.
BetDebitsAndQueues ==
  \A a \in Callers, t \in TableIds :
    (IsCall("place_bet", a, t) /\ last'.ret = "true")
      => LET amount == last'.amount
             q == BetQueue(t)
             q2 == BetQueue(t)'
         IN /\ IsSome(accounts[a]) /\ IsSome(accounts'[a])
            /\ Unwrap(accounts'[a]).balance = Unwrap(accounts[a]).balance - amount
            /\ \A b \in Callers \ {a} : accounts'[b] = accounts[b]
            /\ total_supply' = total_supply - amount
            /\ total_cards_burned' = total_cards_burned + amount
            /\ blackjack_stats'.total_tokens_burned_betting =
                 blackjack_stats.total_tokens_burned_betting + amount
            /\ IsSeated(a, t)' /\ Seat(a, t)'.burned_tokens = amount
            /\ Len(q2) = Len(q) + 1
            /\ SubSeq(q2, 1, Len(q)) = q
            /\ q2[Len(q2)].amount = amount
            /\ q2[Len(q2)].player_account = a

QueuedBetsWereBurned == \A t \in TableIds : QueuedBetTotal(t) <= total_cards_burned

C11_BetEffects == []QueuedBetsWereBurned /\ [][BetDebitsAndQueues]_vars

\* a bet appended behind another player's bet
C11_Witness ==
  /\ last.op = "place_bet" /\ last.ret = "true"
  /\ Len(BetQueue(last.table)) = 2
  /\ BetQueue(last.table)[1].player_account # last.caller
  /\ BetQueue(last.table)[2].player_account = last.caller
  /\ get_balance(last.caller) = InitialBalance[last.caller] - last.amount

\* ---- C12: in every reachable state of every table betting_deadline and
\* move_deadline are never both set, betting_deadline is set only while the state
\* is Betting, and move_deadline is set only while the state is PlayerTurn.
C12_DeadlinesFollowPhase ==
  \A t \in TableIds :
    IsSome(game_tables[t]) =>
      LET table == Unwrap(game_tables[t]) IN
      /\ ~(IsSome(table.betting_deadline) /\ IsSome(table.move_deadline))
      /\ IsSome(table.betting_deadline) => table.state = "Betting"
      /\ IsSome(table.move_deadline) => table.state = "PlayerTurn"

\* ---- C13: in every reachable state of every table current_player_index, when
\* present, is a valid index into the table's player list and the player it
\* designates is Active and has a nonzero current-round stake.
C13_TurnPointerValid ==
  \A t \in TableIds :
    (IsSome(game_tables[t]) /\ IsSome(Unwrap(game_tables[t]).current_player_index))
      => LET table == Unwrap(game_tables[t])
             index == Unwrap(table.current_player_index)
         IN /\ index < Len(table.players)
            /\ At(table.players, index).state = "Active"
            /\ At(table.players, index).burned_tokens > 0

\* the edges of the round lifecycle
ListedEdges ==
  {<<"WaitingForPlayers", "Betting">>, <<"Betting", "DealingInitialCards">>,
   <<"DealingInitialCards", "PlayerTurn">>, <<"PlayerTurn", "DealerTurn">>,
   <<"DealerTurn", "RoundEnded">>, <<"RoundEnded", "WaitingForPlayers">>,
   <<"RoundEnded", "Betting">>}

\* the step resets table t to WaitingForPlayers because it emptied the table or
\* because it is an emergency refund
ResetStep(t) ==
  /\ Unwrap(game_tables'[t]).state = "WaitingForPlayers"
  /\ \/ last'.op \in {"leave_table", "kick_player", "cleanup_inactive_players"}
           /\ Unwrap(game_tables'[t]).players = <<>>
     \/ last'.op = "emergency_refund_table"

\* ---- C14 as stated: a table's state only ever changes along the edges
\* WaitingForPlayers -> Betting -> DealingInitialCards -> PlayerTurn -> DealerTurn
\* -> RoundEnded -> (WaitingForPlayers | Betting), plus the resets to
\* WaitingForPlayers done by an emptied table and by emergency refund; no call moves
\* a table along any other edge.
StateOnListedEdges ==
  \A t \in TableIds :
    (IsSome(game_tables[t]) /\ IsSome(game_tables'[t])
       /\ Unwrap(game_tables'[t]).state # Unwrap(game_tables[t]).state)
      => \/ <<Unwrap(game_tables[t]).state, Unwrap(game_tables'[t]).state>> \in ListedEdges
         \/ ResetStep(t)

C14_StateFollowsEdges == [][StateOnListedEdges]_vars

\* ---- C14 amended: a table's state only ever changes in these ways:
\* advance_game_state and set_table_state set it to the state the caller names,
\* whatever the state before (the edge is not checked); distribute_winnings sets
\* it to RoundEnded; force_next_player moves PlayerTurn to DealerTurn; an emptied
\* table and emergency refund reset it to WaitingForPlayers; no other call changes
\* a table's state.
StateSetAsCommanded ==
  \A t \in TableIds :
    (IsSome(game_tables[t]) /\ IsSome(game_tables'[t]))
      => LET old == Unwrap(game_tables[t]).state
             new == Unwrap(game_tables'[t]).state
         IN /\ (last'.op \in {"advance_game_state", "set_table_state"}
                  /\ last'.table = t /\ last'.ret = "true")
                 => new = last'.target
            /\ new # old =>
                 \/ last'.op \in {"advance_game_state", "set_table_state"}
                      /\ new = last'.target
                 \/ last'.op = "distribute_winnings" /\ new = "RoundEnded"
                 \/ last'.op = "force_next_player"
                      /\ old = "PlayerTurn" /\ new = "DealerTurn"
                 \/ ResetStep(t)

C14_StateSetAsCommanded == [][StateSetAsCommanded]_vars

\* the advance from Betting straight to PlayerTurn of the full-round scenario
C14_Witness ==
  /\ scen = 5
  /\ last.op = "advance_game_state" /\ last.target = "PlayerTurn"
  /\ Unwrap(game_tables["t1"]).state = "PlayerTurn"
  /\ Len(BetQueue("t1")) = 1

\* ---- C15: place_bet succeeds only if at the call the amount is a configured
\* denomination within the table's [min_bet, max_bet], the caller's balance is at
\* least the amount, the table exists, is active and is in Betting, the caller is
\* seated there in state Active, and the caller's current-round stake is zero; so
\* a player has at most one successful place_bet between two resets of the stake.
BetOnlyWhenAllowed ==
  \A a \in Callers, t \in TableIds :
    (IsCall("place_bet", a, t) /\ last'.ret = "true")
      => /\ last'.amount \in valid_burn_amounts
         /\ get_balance(a) >= last'.amount
         /\ IsSome(game_tables[t])
         /\ Unwrap(game_tables[t]).is_active
         /\ Unwrap(game_tables[t]).state = "Betting"
         /\ last'.amount >= Unwrap(game_tables[t]).min_bet
         /\ last'.amount <= Unwrap(game_tables[t]).max_bet
         /\ IsSeated(a, t)
         /\ Seat(a, t).state = "Active"
         /\ Seat(a, t).burned_tokens = 0
         /\ Seat(a, t)'.burned_tokens > 0

C15_BetPreconditions == [][BetOnlyWhenAllowed]_vars

\* the second bet of a player, accepted after the first stake was reset
C15_Witness ==
  /\ last.op = "place_bet" /\ last.ret = "true"
  /\ Len(PlayersAt(last.table)) = 1
  /\ total_cards_burned = 2 * last.amount
  /\ get_balance(last.caller) < InitialBalance[last.caller] - last.amount
  /\ Seat(last.caller, last.table).burned_tokens = last.amount

\* the account of the first Active player with a nonzero stake among players,
\* scanning cyclically from index start (None when there is none)
FirstEligibleFrom(players, start) ==
  LET n == Len(players)
      hits == {j \in 0 .. n - 1 :
                 /\ At(players, (start + j) % n).state = "Active"
                 /\ At(players, (start + j) % n).burned_tokens > 0}
  IN IF hits = {} THEN None
     ELSE Some(At(players, (start + (CHOOSE j \in hits : \A k \in hits : j <= k)) % n).account_id)

\* ---- C16: after a player leaves a table that stays non-empty: if the leaver was
\* not the turn-holder, current_player_index designates the same account as before
\* the call; if the leaver was the turn-holder, current_player_index designates the
\* next Active player with a nonzero stake in cyclic order after the leaver among
\* the remaining players, or is None when no such player remains.
LeaveKeepsTurn ==
  \A a \in Callers, t \in TableIds :
    (IsCall("leave_table", a, t) /\ last'.ret = "true"
       /\ IsSeated(a, t) /\ Len(PlayersAt(t)) > 1)
      => LET index == Unwrap(Position(PlayersAt(t), a))
             remaining == RemoveAt(PlayersAt(t), index)
             expected == FirstEligibleFrom(remaining, index)
         IN IF Designated(t) # Some(a)
            THEN Designated(t)' = Designated(t)
            ELSE /\ Designated(t)' = expected
                 /\ expected = None =>
                      Unwrap(game_tables'[t]).current_player_index = None

C16_LeaveKeepsTurn == [][LeaveKeepsTurn]_vars

\* the queue map q after account a left table t: the entry of t is removed when
\* the leave empties the table (a removed entry reads as an empty queue)
QueuesAfterLeave(q, a, t) ==
  IF Len(PlayersAt(t)) = 1 THEN [q EXCEPT ![t] = None] ELSE q

\* the stake leave_table gives back to account a seated at table t
LeaveRefundOf(a, t) ==
  IF LeaveRefunds(Unwrap(game_tables[t]).state) /\ IsSome(accounts[a])
  THEN Seat(a, t).burned_tokens ELSE 0

\* ---- C17: kick_player(table, account) produces the same resulting balances,
\* total_supply, burn totals, table state, turn pointer and signal queues as
\* leave_table called by that account in the same starting state.
KickLikeLeave ==
  \A a \in Callers, t \in TableIds :
    (IsCall("kick_player", "admin", t) /\ last'.target = a /\ IsSeated(a, t))
      => LET refund == LeaveRefundOf(a, t)
             index == Unwrap(Position(PlayersAt(t), a))
         IN /\ last'.ret = "true"
            /\ \A b \in Callers :
                 get_balance(b)' = get_balance(b) + (IF b = a THEN refund ELSE 0)
            /\ total_supply' = total_supply + refund
            /\ total_cards_burned' = total_cards_burned
            /\ blackjack_stats'.total_tokens_burned_betting =
                 blackjack_stats.total_tokens_burned_betting - refund
            /\ game_tables'[t] = Some(RemovePlayer(Unwrap(game_tables[t]), index))
            /\ unwrap_or_default(pending_bets'[t]) =
                 unwrap_or_default(QueuesAfterLeave(pending_bets, a, t)[t])
            /\ unwrap_or_default(pending_moves'[t]) =
                 unwrap_or_default(QueuesAfterLeave(pending_moves, a, t)[t])

C17_KickLikeLeave == [][KickLikeLeave]_vars

\* the latest call was an accepted settlement of table t that named the round
\* number the table had then, and this step submits the same distribution again
ResubmittedSettlement(t) ==
  /\ last.op = "distribute_winnings" /\ last.table = t /\ last.ret = "true"
  /\ IsSome(game_tables[t])
  /\ last.round + 1 = Unwrap(game_tables[t]).round_number
  /\ IsCall("distribute_winnings", "admin", t)
  /\ last'.round = last.round /\ last'.dist = last.dist

\* ---- C18 as stated: a WinningsDistribution whose round_number equals the
\* table's current round_number can be accepted by distribute_winnings twice in
\* succession, crediting the listed winnings to the listed accounts both times.
SettlementAcceptedTwice ==
  \A t \in TableIds :
    ResubmittedSettlement(t)
      => (last'.ret = "true" /\ accounts' = CreditAll(accounts, last'.dist))

C18_SameRoundAcceptedTwice == [][SettlementAcceptedTwice]_vars

\* ---- C18 amended: a WinningsDistribution whose round_number equals the table's
\* current round_number is accepted once; submitted again in succession it is
\* rejected and credits nothing, because the accepted settlement raised the
\* table's round_number above it.
SettlementAcceptedOnce ==
  \A t \in TableIds :
    ResubmittedSettlement(t) => (last'.ret = "abort" /\ UNCHANGED cvars)

C18_SameRoundAcceptedOnce == [][SettlementAcceptedOnce]_vars

\* the third call of a run: a settlement of round 0 credited 40 and raised the
\* round number to 1, and the settlement of round 0 submitted next was rejected
C18_Witness ==
  /\ steps = 3
  /\ last.op = "distribute_winnings" /\ last.ret = "abort" /\ last.round = 0
  /\ Unwrap(game_tables[last.table]).round_number = 1
  /\ blackjack_stats.total_winnings_distributed = 40
  /\ get_balance("alice") = InitialBalance["alice"] + 40
  /\ last.dist = <<[account_id |-> "alice", winnings |-> 40]>>

\* the winnings of the entries of dist that name account a
WinningsOf(dist, a) ==
  SeqSum([i \in 1 .. Len(dist) |->
            IF dist[i].account_id = a THEN dist[i].winnings ELSE 0])

\* the winnings of the entries of dist whose account has a record
WinningsOfKnown(dist) ==
  SeqSum([i \in 1 .. Len(dist) |->
            IF IsSome(accounts[dist[i].account_id]) THEN dist[i].winnings ELSE 0])

\* ---- C19: an accepted distribute_winnings credits every entry whose account
\* exists with exactly its winnings amount and increases total_supply and
\* total_winnings_distributed by exactly the sum of the credited amounts; entries
\* naming an unknown account are skipped without failing the call and without
\* preventing the credits of the other entries.
WinningsCredited ==
  \A t \in TableIds :
    (IsCall("distribute_winnings", "admin", t) /\ IsSome(game_tables[t])
       /\ last'.round >= Unwrap(game_tables[t]).round_number)
      => /\ last'.ret = "true"
         /\ \A a \in Callers :
              IF IsSome(accounts[a])
              THEN /\ IsSome(accounts'[a])
                   /\ Unwrap(accounts'[a]).balance =
                        Unwrap(accounts[a]).balance + WinningsOf(last'.dist, a)
              ELSE accounts'[a] = None
         /\ total_supply' = total_supply + WinningsOfKnown(last'.dist)
         /\ blackjack_stats'.total_winnings_distributed =
              blackjack_stats.total_winnings_distributed + WinningsOfKnown(last'.dist)

C19_WinningsCredited == [][WinningsCredited]_vars

\* a settlement whose first entry names an unknown account and whose second entry
\* was credited
C19_Witness ==
  /\ last.op = "distribute_winnings" /\ last.ret = "true"
  /\ Len(last.dist) = 2
  /\ accounts[last.dist[1].account_id] = None
  /\ get_balance(last.dist[2].account_id) =
       InitialBalance[last.dist[2].account_id] + last.dist[2].winnings
  /\ blackjack_stats.total_winnings_distributed = last.dist[2].winnings

\* ---- C20: an accepted distribute_winnings resets every player seated at the
\* table, whether or not they appear in the distribution: their current-round
\* stake becomes 0, their pending move is cleared, and their rounds-played counter
\* increases by 1.
SettlementResetsPlayers ==
  \A t \in TableIds :
    (IsCall("distribute_winnings", "admin", t) /\ last'.ret = "true")
      => /\ IsSome(game_tables'[t])
         /\ Len(PlayersAt(t)') = Len(PlayersAt(t))
         /\ \A i \in 1 .. Len(PlayersAt(t)) :
              /\ PlayersAt(t)'[i].account_id = PlayersAt(t)[i].account_id
              /\ PlayersAt(t)'[i].burned_tokens = 0
              /\ PlayersAt(t)'[i].pending_move = None
              /\ PlayersAt(t)'[i].rounds_played = PlayersAt(t)[i].rounds_played + 1

C20_SettlementResetsPlayers == [][SettlementResetsPlayers]_vars

\* the move queue of table t
MoveQueue(t) == unwrap_or_default(pending_moves[t])

\* ---- C21: an accepted distribute_winnings increases the table's round_number
\* by exactly 1, sets the table state to RoundEnded, and leaves both the bet queue
\* and the move queue of that table empty, whatever they contained before the call.
SettlementEndsRound ==
  \A t \in TableIds :
    (IsCall("distribute_winnings", "admin", t) /\ last'.ret = "true")
      => /\ IsSome(game_tables[t]) /\ IsSome(game_tables'[t])
         /\ Unwrap(game_tables'[t]).round_number = Unwrap(game_tables[t]).round_number + 1
         /\ Unwrap(game_tables'[t]).state = "RoundEnded"
         /\ pending_bets'[t] = Some(<<>>)
         /\ pending_moves'[t] = Some(<<>>)

C21_SettlementEndsRound == [][SettlementEndsRound]_vars

\* the fifth call of a run, a settlement right after create_table, join_table,
\* the advance to Betting and a bet: the bet queue held the BetSignal and is empty
C21_Witness ==
  /\ steps = 5
  /\ last.op = "distribute_winnings" /\ last.ret = "true"
  /\ total_cards_burned > 0
  /\ Unwrap(game_tables[last.table]).state = "RoundEnded"
  /\ Unwrap(game_tables[last.table]).round_number = 1
  /\ BetQueue(last.table) = <<>> /\ MoveQueue(last.table) = <<>>

\* queue after is queue before without its first min(count, length) entries
FrontRemoved(before, after, count) ==
  LET k == IF count < Len(before) THEN count ELSE Len(before) IN
  /\ Len(after) = Len(before) - k
  /\ \A i \in 1 .. Len(after) : after[i] = before[i + k]

\* ---- C22: clear_signals(table, b, m) removes exactly min(b, length) entries
\* from the front of the bet queue and min(m, length) from the front of the move
\* queue, keeps the remaining entries in their original order, and with a count of
\* 0 leaves that queue unchanged.
ClearTakesFromFront ==
  \A t \in TableIds :
    IsCall("clear_signals", "admin", t)
      => /\ FrontRemoved(BetQueue(t), BetQueue(t)', last'.amount)
         /\ FrontRemoved(MoveQueue(t), MoveQueue(t)', last'.round)
         /\ last'.amount = 0 => pending_bets' = pending_bets
         /\ last'.round = 0 => pending_moves' = pending_moves

C22_ClearTakesFromFront == [][ClearTakesFromFront]_vars

\* one of two queued bets was cleared: the bet of the second bettor is left
C22_Witness ==
  /\ last.op = "clear_signals" /\ last.amount = 1 /\ last.round = 0
  /\ Len(BetQueue(last.table)) = 1
  /\ Len(PlayersAt(last.table)) = 2
  /\ \A i \in 1 .. 2 : PlayersAt(last.table)[i].burned_tokens > 0
  /\ BetQueue(last.table)[1].player_account = "bob"

\* the operations that empty a signal queue at once: settlement, emergency
\* refund, a removal that empties the table, removal of the table, and the two
\* queue resets
WholesaleClears ==
  {"distribute_winnings", "emergency_refund_table", "leave_table",
   "cleanup_inactive_players", "close_table", "clear_all_pending_signals",
   "cleanup_round_signals"}

\* one step of a signal queue: untouched, one signal of the caller appended at the
\* tail by a successful call of op, entries taken from the front by clear_signals,
\* or emptied by one of the wholesale clears
QueueStep(before, after, op) ==
  \/ after = before
  \/ /\ last'.op = op /\ last'.ret = "true"
     /\ Len(after) = Len(before) + 1
     /\ SubSeq(after, 1, Len(before)) = before
     /\ after[Len(after)].player_account = last'.caller
     /\ after[Len(after)].timestamp = now
  \/ /\ last'.op = "clear_signals"
     /\ \E k \in 1 .. Len(before) : after = SubSeq(before, k + 1, Len(before))
  \/ /\ last'.op \in WholesaleClears
     /\ after = <<>>

\* ---- C23: for every table, each signal queue is always a contiguous run of the
\* signals appended by successful place_bet / signal_move calls, in call-arrival
\* order: entries are only added at the tail, never reordered or modified, and
\* only removed from the front (clear_signals) or all at once (settlement,
\* emergency refund, table emptied or removed, clear_all_pending_signals,
\* cleanup_round_signals).
QueuesAppendOrdered ==
  \A t \in TableIds :
    /\ QueueStep(BetQueue(t), BetQueue(t)', "place_bet")
    /\ QueueStep(MoveQueue(t), MoveQueue(t)', "signal_move")

C23_QueuesAppendOrdered == [][QueuesAppendOrdered]_vars

\* two bets are queued in the order of the calls: alice's, then bob's, which the
\* latest call appended
C23_Witness ==
  /\ last.op = "place_bet" /\ last.ret = "true" /\ last.caller = "bob"
  /\ Len(BetQueue(last.table)) = 2
  /\ BetQueue(last.table)[1].player_account = "alice"
  /\ BetQueue(last.table)[2].player_account = "bob"

\* the player can be given the turn: Active with a nonzero stake
Eligible(player) == player.state = "Active" /\ player.burned_tokens > 0

\* the latest step was advance_game_state(t, target) on an existing table
Advanced(t, target) ==
  /\ IsCall("advance_game_state", "admin", t)
  /\ last'.target = target
  /\ last'.ret = "true"

\* ---- C24: advance_game_state(table, PlayerTurn) sets current_player_index to the
\* Active player with nonzero stake that has the lowest seat number, sets
\* move_deadline and clears betting_deadline; when no seated player is Active with
\* nonzero stake, current_player_index is None after the call and the state is
\* still PlayerTurn.
PlayerTurnPicksLowestSeat ==
  \A t \in TableIds :
    Advanced(t, "PlayerTurn")
      => LET players == PlayersAt(t)
             after == Unwrap(game_tables'[t])
         IN /\ after.state = "PlayerTurn"
            /\ after.betting_deadline = None
            /\ after.players = players
            /\ IF \E i \in 1 .. Len(players) : Eligible(players[i])
               THEN /\ IsSome(after.current_player_index)
                    /\ LET first == At(players, Unwrap(after.current_player_index)) IN
                       /\ Eligible(first)
                       /\ \A i \in 1 .. Len(players) :
                            Eligible(players[i])
                              => first.seat_number <= players[i].seat_number
                    /\ after.move_deadline = Some(now + move_timeout_ms)
               ELSE after.current_player_index = None

C24_PlayerTurnPicksLowestSeat == [][PlayerTurnPicksLowestSeat]_vars

\* two players with a stake, the one who joined second on the lower seat: the turn
\* went to the second entry of the player list
C24_Witness ==
  /\ last.op = "advance_game_state" /\ last.target = "PlayerTurn" /\ last.ret = "true"
  /\ Len(PlayersAt(last.table)) = 2
  /\ \A i \in 1 .. 2 : Eligible(PlayersAt(last.table)[i])
  /\ PlayersAt(last.table)[2].seat_number < PlayersAt(last.table)[1].seat_number
  /\ Unwrap(game_tables[last.table]).current_player_index = Some(1)
  /\ IsSome(Unwrap(game_tables[last.table]).move_deadline)

\* ---- C25: advance_game_state(table, Betting) makes every Observing or
\* WaitingForNextRound player Active, sets every seated player's stake and pending
\* move to empty, sets betting_deadline, and clears move_deadline and
\* current_player_index.
BettingStartsRound ==
  \A t \in TableIds :
    Advanced(t, "Betting")
      => LET players == PlayersAt(t)
             after == Unwrap(game_tables'[t])
         IN /\ after.state = "Betting"
            /\ Len(after.players) = Len(players)
            /\ \A i \in 1 .. Len(players) :
                 /\ after.players[i].account_id = players[i].account_id
                 /\ after.players[i].seat_number = players[i].seat_number
                 /\ after.players[i].burned_tokens = 0
                 /\ after.players[i].pending_move = None
                 /\ after.players[i].state =
                      IF players[i].state \in {"Observing", "WaitingForNextRound"}
                      THEN "Active" ELSE players[i].state
            /\ after.betting_deadline = Some(now + betting_timeout_ms)
            /\ after.move_deadline = None
            /\ after.current_player_index = None

C25_BettingStartsRound == [][BettingStartsRound]_vars

\* a round is started on a table with two seated players while a stake of the
\* round before is still counted as burned: both players are Active with an empty
\* stake and no pending move
C25_Witness ==
  /\ last.op = "advance_game_state" /\ last.target = "Betting" /\ last.ret = "true"
  /\ blackjack_stats.total_tokens_burned_betting > 0
  /\ Len(BetQueue(last.table)) = 1
  /\ Len(PlayersAt(last.table)) = 2
  /\ \A i \in 1 .. 2 :
       /\ PlayersAt(last.table)[i].state = "Active"
       /\ PlayersAt(last.table)[i].burned_tokens = 0
       /\ PlayersAt(last.table)[i].pending_move = None
  /\ Unwrap(game_tables[last.table]).betting_deadline = Some(now + betting_timeout_ms)
  /\ Unwrap(game_tables[last.table]).move_deadline = None
  /\ Unwrap(game_tables[last.table]).current_player_index = None

\* the number of seats index j lies after index from, going round a list of n
CyclicDistance(from, j, n) == (j - from + 2 * n) % n

\* ---- C26: force_next_player on a table in PlayerTurn sets current_player_index
\* to the first Active player with nonzero stake found scanning cyclically from
\* just after the current index; when no other such player exists the table moves
\* to DealerTurn with the turn pointer and both deadlines cleared; on a table not
\* in PlayerTurn it returns false and changes nothing.
ForceScansCyclically ==
  \A t \in TableIds :
    (IsCall("force_next_player", "admin", t) /\ IsSome(game_tables[t]))
      => LET table == Unwrap(game_tables[t])
             after == Unwrap(game_tables'[t])
             n == Len(table.players)
             from == IF n = 0 THEN 0
                     ELSE (IF IsSome(table.current_player_index)
                           THEN Unwrap(table.current_player_index) ELSE 0) % n
             others == {j \in 0 .. n - 1 :
                          j # from /\ Eligible(At(table.players, j))}
         IN IF table.state # "PlayerTurn"
            THEN last'.ret = "false" /\ UNCHANGED cvars
            ELSE /\ last'.ret = "true"
                 /\ after.players = table.players
                 /\ IF others # {}
                    THEN /\ after.state = "PlayerTurn"
                         /\ IsSome(after.current_player_index)
                         /\ Unwrap(after.current_player_index) \in others
                         /\ \A j \in others :
                              CyclicDistance(from, Unwrap(after.current_player_index), n)
                                <= CyclicDistance(from, j, n)
                    ELSE /\ after.state = "DealerTurn"
                         /\ after.current_player_index = None
                         /\ after.betting_deadline = None
                         /\ after.move_deadline = None

DoubleBy(a, t) ==
  /\ IsCall("signal_move", a, t)
  /\ last'.move = "Double"
  /\ IsSeated(a, t)

\* ---- C27: a successful signal_move with Double debits exactly the player's
\* original bet from their balance and total_supply and adds it to their stake and
\* the burn totals, and a player can double at most once per round: after one
\* successful Double, a further Double by the same player in the same round fails
\* and debits nothing. (The original bet of a player who has not moved in the round
\* is their stake; a player whose pending move is Double has doubled in the round.)
DoubleOncePerRound ==
  \A a \in Callers, t \in TableIds :
    DoubleBy(a, t)
      => LET stake == Seat(a, t).burned_tokens IN
         /\ (last'.ret = "true" /\ Seat(a, t).pending_move = None)
              => /\ get_balance(a)' = get_balance(a) - stake
                 /\ total_supply' = total_supply - stake
                 /\ Seat(a, t)'.burned_tokens = 2 * stake
                 /\ total_cards_burned' = total_cards_burned + stake
                 /\ blackjack_stats'.total_tokens_burned_betting =
                      blackjack_stats.total_tokens_burned_betting + stake
         /\ Seat(a, t).pending_move = Some("Double")
              => /\ last'.ret # "true"
                 /\ get_balance(a)' = get_balance(a)
                 /\ total_supply' = total_supply
                 /\ Seat(a, t)'.burned_tokens = stake

C27_DoubleOncePerRound == [][DoubleOncePerRound]_vars

\* the operations that take players off a table
Removals == {"leave_table", "kick_player", "cleanup_inactive_players"}

\* ---- C28: whenever removing a player (by leave_table, kick_player or
\* cleanup_inactive_players) leaves the table with no players, the table state is
\* WaitingForPlayers, the turn pointer and both deadlines are None, and both signal
\* queues of the table are empty after the call.
EmptiedTableIsReset ==
  \A t \in TableIds :
    (last'.op \in Removals /\ last'.table = t
     /\ PlayersAt(t) # <<>> /\ PlayersAt(t)' = <<>>)
      => LET after == Unwrap(game_tables'[t]) IN
         /\ after.state = "WaitingForPlayers"
         /\ after.current_player_index = None
         /\ after.betting_deadline = None
         /\ after.move_deadline = None
         /\ BetQueue(t)' = <<>>
         /\ MoveQueue(t)' = <<>>

C28_EmptiedTableIsReset == [][EmptiedTableIsReset]_vars

\* the players of the list whose last action is at most timeout_ms old
StillActive(players, timeout_ms) ==
  SelectSeq(players, LAMBDA p : now - p.last_action_time <= timeout_ms)

\* account a sits at table t and its last action is more than timeout_ms old
Swept(a, t, timeout_ms) ==
  IsSeated(a, t) /\ now - Seat(a, t).last_action_time > timeout_ms

\* ---- C29: cleanup_inactive_players(table, timeout) removes exactly the seated
\* players whose last-action age exceeds the timeout and keeps all others with
\* their seat and stake unchanged, and credits a removed player's stake back under
\* exactly the condition leave_table uses (only when the table is in Betting or
\* WaitingForPlayers).
SweepRefundsLikeLeave ==
  \A t \in TableIds :
    (IsCall("cleanup_inactive_players", "admin", t) /\ IsSome(game_tables[t]))
      => /\ PlayersAt(t)' = StillActive(PlayersAt(t), last'.timeout)
         /\ last'.amount = Len(PlayersAt(t)) - Len(PlayersAt(t)')
         /\ \A a \in Callers :
              get_balance(a)' = get_balance(a)
                + (IF Swept(a, t, last'.timeout) THEN LeaveRefundOf(a, t) ELSE 0)

C29_SweepRefundsLikeLeave == [][SweepRefundsLikeLeave]_vars

\* ---- C30: emergency_refund_table credits every seated player with a nonzero
\* stake exactly that stake (balance and total_supply up by it,
\* total_tokens_burned_betting down by it), sets that stake to 0, returns the
\* number of players refunded, sets the table to WaitingForPlayers with turn
\* pointer and deadlines cleared, and empties both signal queues; players stay
\* seated.
EmergencyRefundsAll ==
  \A t \in TableIds :
    (IsCall("emergency_refund_table", "admin", t) /\ IsSome(game_tables[t]))
      => LET players == PlayersAt(t)
             after == Unwrap(game_tables'[t])
         IN /\ \A a \in Callers :
                 get_balance(a)' = get_balance(a)
                   + (IF IsSeated(a, t) THEN Seat(a, t).burned_tokens ELSE 0)
            /\ total_supply' = total_supply + StakesAt(t)
            /\ blackjack_stats'.total_tokens_burned_betting =
                 blackjack_stats.total_tokens_burned_betting - StakesAt(t)
            /\ last'.ret = "count"
            /\ last'.amount =
                 Cardinality({i \in 1 .. Len(players) : players[i].burned_tokens > 0})
            /\ Len(after.players) = Len(players)
            /\ \A i \in 1 .. Len(players) :
                 after.players[i] = [players[i] EXCEPT !.burned_tokens = 0]
            /\ after.state = "WaitingForPlayers"
            /\ after.current_player_index = None
            /\ after.betting_deadline = None
            /\ after.move_deadline = None
            /\ BetQueue(t)' = <<>>
            /\ MoveQueue(t)' = <<>>

C30_EmergencyRefundsAll == [][EmergencyRefundsAll]_vars

\* of two seated players the one who had bet was refunded: the call returned 1,
\* no stake is left, every balance is the initial one and both stay seated
C30_Witness ==
  /\ last.op = "emergency_refund_table" /\ last.ret = "count" /\ last.amount = 1
  /\ total_cards_burned > 0
  /\ blackjack_stats.total_tokens_burned_betting = 0
  /\ Len(PlayersAt(last.table)) = 2
  /\ StakesAt(last.table) = 0
  /\ \A a \in Registered : get_balance(a) = InitialBalance[a]
  /\ Unwrap(game_tables[last.table]).state = "WaitingForPlayers"
  /\ BetQueue(last.table) = <<>>

\* ---- C31: close_table credits every seated player's nonzero stake back to
\* their balance (and to total_supply) before the table, its bet queue and its
\* move queue are removed and active_tables is decremented; close_table /
\* remove_table on an absent table id changes no state.
CloseRefundsThenRemoves ==
  \A t \in TableIds :
    /\ (IsCall("close_table", "admin", t) /\ IsSome(game_tables[t]))
         => /\ \A a \in Callers :
                 get_balance(a)' = get_balance(a)
                   + (IF IsSeated(a, t) THEN Seat(a, t).burned_tokens ELSE 0)
            /\ total_supply' = total_supply + StakesAt(t)
            /\ game_tables'[t] = None
            /\ pending_bets'[t] = None
            /\ pending_moves'[t] = None
            /\ blackjack_stats.active_tables > 0
            /\ blackjack_stats'.active_tables = blackjack_stats.active_tables - 1
    /\ ((IsCall("close_table", "admin", t) \/ IsCall("remove_table", "admin", t))
          /\ game_tables[t] = None)
         => UNCHANGED cvars

C31_CloseRefundsThenRemoves == [][CloseRefundsThenRemoves]_vars

\* a table with a staked player was closed: the table and its queues are gone,
\* no table is counted, and every balance is the initial one again
C31_Witness ==
  /\ last.op = "close_table"
  /\ total_cards_burned > 0
  /\ game_tables[last.table] = None
  /\ pending_bets[last.table] = None /\ pending_moves[last.table] = None
  /\ blackjack_stats.active_tables = 0
  /\ \A a \in Registered : get_balance(a) = InitialBalance[a]
  /\ total_supply = SumBalances

\* ---- C32: create_table with an id that already exists aborts and leaves the
\* existing table, its players, its queues and active_tables unchanged; with a new
\* id it creates a table in WaitingForPlayers with no players, no turn pointer, no
\* deadlines, round_number 0, is_active true, empty bet and move queues, and
\* increments active_tables by 1.
CreateOnlyNewIds ==
  \A t \in TableIds :
    IsCall("create_table", "admin", t)
      => IF IsSome(game_tables[t])
         THEN /\ last'.ret = "abort"
              /\ game_tables' = game_tables
              /\ pending_bets' = pending_bets
              /\ pending_moves' = pending_moves
              /\ blackjack_stats' = blackjack_stats
              /\ UNCHANGED cvars
         ELSE /\ last'.ret = "true"
              /\ IsSome(game_tables'[t])
              /\ LET table == Unwrap(game_tables'[t]) IN
                 /\ table.state = "WaitingForPlayers"
                 /\ table.players = <<>>
                 /\ table.current_player_index = None
                 /\ table.betting_deadline = None
                 /\ table.move_deadline = None
                 /\ table.round_number = 0
                 /\ table.is_active
              /\ pending_bets'[t] = Some(<<>>)
              /\ pending_moves'[t] = Some(<<>>)
              /\ blackjack_stats'.active_tables = blackjack_stats.active_tables + 1

C32_CreateOnlyNewIds == [][CreateOnlyNewIds]_vars

\* create_table was called with the id of a table that has a seated player and a
\* queued bet: the call aborted and the table, the player and the bet are there
C32_Witness ==
  /\ last.op = "create_table" /\ last.ret = "abort"
  /\ Len(PlayersAt(last.table)) = 1
  /\ StakesAt(last.table) > 0
  /\ Len(BetQueue(last.table)) = 1
  /\ Unwrap(game_tables[last.table]).state = "Betting"
  /\ blackjack_stats.active_tables = 1

\* ---- C36: a table's round_number never decreases over any sequence of
\* operations; it changes only by +1 steps, made by advance_game_state to
\* RoundEnded and by an accepted distribute_winnings.
RoundNumberCountsUp ==
  \A t \in TableIds :
    (IsSome(game_tables[t]) /\ IsSome(game_tables'[t])
     /\ Unwrap(game_tables'[t]).round_number # Unwrap(game_tables[t]).round_number)
      => /\ Unwrap(game_tables'[t]).round_number =
              Unwrap(game_tables[t]).round_number + 1
         /\ last'.table = t
         /\ last'.ret = "true"
         /\ \/ last'.op = "advance_game_state" /\ last'.target = "RoundEnded"
            \/ last'.op = "distribute_winnings"

C36_RoundNumberCountsUp == [][RoundNumberCountsUp]_vars

\* advance_game_state to RoundEnded has counted the first round of a table on
\* which a bet was placed
C36_Witness ==
  /\ last.op = "advance_game_state" /\ last.target = "RoundEnded" /\ last.ret = "true"
  /\ RoundNumber(last.table) = 1
  /\ StakesAt(last.table) > 0

\* ---- C37: cleanup_round_signals(table, round_number) refuses to clear signals
\* for future rounds: it aborts, leaving both queues unchanged, when round_number
\* is greater than the table's current round_number, and clears both queues when
\* round_number is the current or an already completed round.
FutureRoundsRefused ==
  \A t \in TableIds :
    (IsCall("cleanup_round_signals", "admin", t) /\ IsSome(game_tables[t]))
      => IF last'.round > RoundNumber(t)
         THEN /\ last'.ret = "abort"
              /\ pending_bets' = pending_bets
              /\ pending_moves' = pending_moves
         ELSE /\ last'.ret = "done"
              /\ BetQueue(t)' = <<>>
              /\ MoveQueue(t)' = <<>>

C37_FutureRoundsRefused == [][FutureRoundsRefused]_vars

\* ---- C40: in every reachable state, blackjack_stats.total_tokens_burned_betting
\* is at least the sum of burned_tokens over all seated players of all tables, so
\* the subtraction made by each refund path (leave_table, kick_player,
\* cleanup_inactive_players, close_table, emergency_refund_table) never underflows.
C40_BurnedCoversStakes ==
  /\ blackjack_stats.total_tokens_burned_betting >= SumStaked
  /\ blackjack_stats.total_tokens_burned_betting >= 0

\* of two players with a stake one has left and was refunded: the betting counter
\* is exactly the stake of the player who stayed
C40_Witness ==
  /\ last.op = "leave_table" /\ last.ret = "true"
  /\ total_cards_burned = 20
  /\ SumStaked = 10
  /\ blackjack_stats.total_tokens_burned_betting = SumStaked

\* the admin and backend operations of the claim C39
StakeKeepers ==
  {"advance_game_state", "set_table_state", "remove_table", "cleanup_expired_tables"}

\* account a sits at table t after the step with the stake it had before
StakeKept(a, t) ==
  /\ IsSeated(a, t)'
  /\ Seat(a, t)'.burned_tokens = Seat(a, t).burned_tokens

\* ---- C39: no admin/backend operation other than distribute_winnings discards a
\* live stake without crediting it back: advance_game_state (to any target state,
\* including Betting), set_table_state, remove_table and cleanup_expired_tables
\* each either leave every seated player's nonzero burned_tokens unchanged or
\* credit that amount to the player's balance in the same call.
NoStakeDiscarded ==
  last'.op \in StakeKeepers
    => \A t \in TableIds, a \in Callers :
         (IsSeated(a, t) /\ Seat(a, t).burned_tokens > 0)
           => \/ StakeKept(a, t)
              \/ get_balance(a)' = get_balance(a) + Seat(a, t).burned_tokens

C39_NoStakeDiscarded == [][NoStakeDiscarded]_vars

\* ---------------------------------------------------------------- C33
\* the calls the pause switch guards
PauseGuarded == {"join_game_table", "place_bet", "signal_move"}

\* a call of join_game_table, place_bet or signal_move made while the switch
\* is on aborts and leaves the whole contract state as it was; made while the
\* switch is off it is exactly the call of the game function; and the owner's
\* global_pause / global_resume turn the switch on / off
PauseBlocksPlayers ==
  /\ (steps' = steps + 1 /\ env'.method \in PauseGuarded) =>
       IF IsSome(is_globally_paused) /\ Unwrap(is_globally_paused)
       THEN /\ last'.ret = "abort"
            /\ UNCHANGED cvars
            /\ UNCHANGED avars
       ELSE /\ UNCHANGED avars
            /\ env'.method = "join_game_table" =>
                 join_table(env'.predecessor, last'.table, last'.seat)
            /\ env'.method = "place_bet" =>
                 place_bet(env'.predecessor, last'.table, last'.amount)
            /\ env'.method = "signal_move" =>
                 signal_move(env'.predecessor, last'.table, last'.move, last'.hand)
  /\ (steps' = steps + 1 /\ env'.predecessor = owner_id) =>
       /\ env'.method = "global_pause" => is_globally_paused' = Some(TRUE)
       /\ env'.method = "global_resume" => is_globally_paused' = Some(FALSE)

\* C33: while the contract is globally paused, join_game_table, place_bet and
\* signal_move are rejected and change no state; after global_resume the same
\* calls are accepted again under their normal preconditions.
C33_PauseBlocksPlayers == [][PauseBlocksPlayers]_vars

\* the contract is paused, and the bet of a player who is seated at the table in
\* the betting phase and could pay it has been refused
C33_Witness ==
  /\ env.method = "place_bet"
  /\ last.ret = "abort"
  /\ is_globally_paused = Some(TRUE)
  /\ IsSome(game_tables["t1"])
  /\ Unwrap(game_tables["t1"]).state = "Betting"
  /\ IsSeated(env.predecessor, "t1")
  /\ get_balance(env.predecessor) >= 10

\* ---------------------------------------------------------------- C34
AdminGuarded ==
  {"distribute_winnings", "advance_game_state", "clear_processed_signals",
   "close_table", "kick_player_by_account", "clear_all_pending_signals",
   "emergency_end_round_with_refunds", "cleanup_round_signals"}

\* a call of an admin entry point signed by an account that is neither the
\* owner nor in game_admins aborts and leaves the whole contract state as it was
StrangersRefused ==
  (/\ steps' = steps + 1
   /\ env'.method \in AdminGuarded
   /\ env'.predecessor # owner_id
   /\ env'.predecessor \notin game_admins) =>
    /\ last'.ret = "abort"
    /\ UNCHANGED cvars
    /\ UNCHANGED avars

\* C34: distribute_winnings, advance_game_state, clear_processed_signals,
\* close_table, kick_player_by_account, clear_all_pending_signals,
\* emergency_end_round_with_refunds and cleanup_round_signals abort with no
\* state change when the caller is neither the owner nor a registered game admin.
C34_StrangersRefused == [][StrangersRefused]_vars

\* an account that is not on the admin list tried to close a table at which a
\* player is seated, and was refused
C34_Witness ==
  /\ env.method = "close_table"
  /\ env.predecessor = "carol"
  /\ "carol" \notin game_admins
  /\ last.ret = "abort"
  /\ last.table = "t1"
  /\ IsSome(game_tables["t1"])
  /\ Len(Unwrap(game_tables["t1"]).players) > 0

\* ---------------------------------------------------------------- C35
TableScoped ==
  {"join_table", "leave_table", "place_bet", "signal_move", "distribute_winnings",
   "advance_game_state", "clear_signals", "force_next_player", "kick_player",
   "emergency_refund_table", "close_table"}

\* a table-scoped call leaves the record, the bet queue and the move queue of
\* every table it does not name as they were
OtherTablesUntouched ==
  (steps' = steps + 1 /\ last'.op \in TableScoped) =>
    \A u \in TableIds \ {last'.table} :
      /\ game_tables'[u] = game_tables[u]
      /\ pending_bets'[u] = pending_bets[u]
      /\ pending_moves'[u] = pending_moves[u]

\* C35: every table-scoped operation naming table T (join, leave, place_bet,
\* signal_move, distribute_winnings, advance_game_state, clear_signals,
\* force_next_player, kick_player, emergency_refund_table, close_table) leaves
\* the record and both signal queues of every other table unchanged.
C35_OtherTablesUntouched == [][OtherTablesUntouched]_vars

\* a player has taken a seat at t1 while t2 holds a staked player and that
\* player's queued bet
C35_Witness ==
  /\ last.op = "join_table"
  /\ last.table = "t1"
  /\ last.ret = "true"
  /\ IsSeated(last.caller, "t1")
  /\ IsSome(game_tables["t2"])
  /\ StakesAt("t2") > 0
  /\ Len(BetQueue("t2")) > 0

\* ---------------------------------------------------------------- C38
\* a call changes total_supply by exactly what it changes the balances by in
\* sum, and leaves the two equal
SupplyFollowsBalances ==
  /\ total_supply' - total_supply = SumBalances' - SumBalances
  /\ total_supply' = SumBalances'

\* C38: after any sequence of claim_daily_cards, place_bet, signal_move,
\* distribute_winnings, leave_table, kick_player, cleanup_inactive_players,
\* close_table and emergency_refund_table calls, total_supply equals the sum of
\* all account balances: every call that changes a balance changes total_supply
\* by the same signed amount.
C38_SupplyFollowsBalances == [][SupplyFollowsBalances]_vars

\* a daily claim has been paid out in a run in which a bet was burned and
\* winnings were minted
C38_Witness ==
  /\ last.op = "claim_daily_cards"
  /\ last.ret = "count"
  /\ get_balance(last.caller) >= daily_claim_amount
  /\ total_cards_burned > 0
  /\ blackjack_stats.total_winnings_distributed > 0
====
